---------------------------- MODULE Spec2Model ----------------------------
(***************************************************************************)
(* A model of the ABI admissions pipeline:                                 *)
(*   - the Spreadsheet Extractor  (excel_processor.py, process_abi_data)   *)
(*   - the Table Normalizer       (csv_processor.py)                       *)
(*   - the Table Concatenator     (csv_combiner.py)                        *)
(* Cell texts are TLA+ strings.  A data frame is a sequence of rows, each  *)
(* row a sequence of cells; a missing cell (pandas NaN) is the value NaN.  *)
(***************************************************************************)
EXTENDS Integers, Sequences, FiniteSets, TLC

VARIABLES
    (* Extractor: process_abi_data *)
    xpc,            \* position in process_abi_data
    original_df,    \* the copy taken before Step 2
    processed_df,   \* the frame being rewritten
    (* Concatenator, called as functions *)
    fpc,            \* position of the caller
    csv_files,      \* the ordered list of input files (their contents)
    region_name,    \* the region_name argument, or None
    header_test,    \* what test_header_consistency returned
    combined,       \* what combine_csv_files returned
    written,        \* the file at combine_csv_files' output path
    (* Concatenator: process_all_subfolders *)
    ppc,            \* position in process_all_subfolders
    base_exists,    \* whether base_dir exists
    dirs,           \* the subfolders of base_dir
    disk,           \* disk[d][n]: the file base_dir/d/n.csv
    england,        \* the file base_dir/England.csv
    subfolders,     \* the subfolders, in the order iterdir() gave them
    idx,            \* the position of the loop in subfolders
    regional_files, \* the subfolders whose combined file was recorded
    warnings,       \* the subfolders reported to have inconsistent headers
    (* Extractor, Step 5 of process_abi_data *)
    clean_sheet_name,   \* the cleaned name of the second sheet
    split_dataframes,   \* what split_by_blank_rows returned
    output_subfolder,   \* the files written into the sheet's subfolder
    (* Normalizer: process_csv_file on one file of process_all_csv_files *)
    npc,            \* position in process_csv_file
    csv_file,       \* the file being normalized, on disk
    csv_df,         \* the frame process_csv_file works on
    (* Normalizer: standardize_financial_year *)
    ypc,            \* position of the caller
    year_string,    \* the argument
    year_out,       \* the value returned
    (* the batch runs of the three stages: what a run printed and did *)
    events,         \* what was done to each input file, in order
    runs,           \* how many times the entry point has been started
    last_listing,   \* the subfolders as the run before this one listed them
    processed_count,    \* the count the running entry point keeps
    failed,         \* the files the Extractor or the Normalizer printed
                    \* an [ERROR] line for
    (* Extractor: process_all_excel_files *)
    epc,            \* position in process_all_excel_files
    input_exists,   \* whether input_dir exists
    excel_files,    \* the workbooks, in the order glob() gave them
    excel_file,     \* the position of the loop in excel_files
    output_path,    \* output_dir: whether it exists, and its subfolders
    (* Normalizer: process_all_csv_files, over base_dir/disk above *)
    bpc,            \* position in process_all_csv_files
    csv_list,       \* the CSV files of the subfolder, as glob() gave them
    file_idx,       \* the position of the inner loop in csv_list
    total_files_processed,  \* the count of files written
    read_only,      \* the files that cannot be opened for writing
    (* Dashboard: load_data behind st.cache_data *)
    dpc,            \* position in a run of the dashboard script
    clock,          \* the clock the file system stamps writes with
    mtime,          \* the modification time of England.csv (0: no file)
    version,        \* which content England.csv holds (0: no file)
    cache,          \* st.cache_data's entries: cache_key -> content loaded
    cache_key,      \* the key computed by the script
    shown,          \* the content of the frame load_data returned
    file_reads,     \* how many times pd.read_csv has read England.csv
    stamps,         \* the modification time each content was written with
    stat_version    \* the content England.csv held when getmtime was called

xvars == <<xpc, original_df, processed_df>>
fvars == <<fpc, csv_files, region_name, header_test, combined, written>>
pvars == <<ppc, base_exists, dirs, disk, england, subfolders, idx,
           regional_files, warnings>>
svars == <<clean_sheet_name, split_dataframes, output_subfolder>>
nvars == <<npc, csv_file, csv_df>>
yvars == <<ypc, year_string, year_out>>
rvars == <<events, runs, last_listing, processed_count, failed>>
evars == <<epc, input_exists, excel_files, excel_file, output_path>>
bvars == <<bpc, csv_list, file_idx, total_files_processed, read_only>>
dvars == <<dpc, clock, mtime, version, cache, cache_key, shown, file_reads,
           stamps, stat_version>>
tvars == <<evars, bvars, dvars>>
vars == <<xpc, original_df, processed_df,
          fpc, csv_files, region_name, header_test, combined, written,
          ppc, base_exists, dirs, disk, england, subfolders, idx,
          regional_files, warnings,
          clean_sheet_name, split_dataframes, output_subfolder,
          npc, csv_file, csv_df,
          ypc, year_string, year_out,
          events, runs, last_listing, processed_count, failed,
          epc, input_exists, excel_files, excel_file, output_path,
          bpc, csv_list, file_idx, total_files_processed, read_only,
          dpc, clock, mtime, version, cache, cache_key, shown, file_reads,
          stamps, stat_version>>

(***************************************************************************)
(* Bounds of the model                                                     *)
(***************************************************************************)
SheetWidth == 7     \* columns of the sheets the Extractor is run on
MaxFiles == 3       \* files in a list handed to the Concatenator's functions
MaxDataRows == 1    \* data rows (rows after row 0) of an input CSV
MaxMetricColumns == 3   \* metric columns of a file handed to the Normalizer
MaxRecords == 1     \* data rows of a file handed to the Normalizer
MaxSheetRows == 4   \* rows of the sheets the Extractor splits

(***************************************************************************)
(* Text                                                                    *)
(***************************************************************************)
NaN == "<NaN>"      \* pandas' missing value; no cell text equals it
None == "<None>"    \* Python's None where a text is expected

Max(a, b) == IF a >= b THEN a ELSE b

CharAt(s, i) == SubSeq(s, i, i)

Whitespace == {" ", "\t"}

\* str.strip(): leading and trailing whitespace removed
RECURSIVE LStrip(_)
LStrip(s) ==
    IF Len(s) > 0 /\ CharAt(s, 1) \in Whitespace THEN LStrip(SubSeq(s, 2, Len(s)))
    ELSE s

RECURSIVE RStrip(_)
RStrip(s) ==
    IF Len(s) > 0 /\ CharAt(s, Len(s)) \in Whitespace
    THEN RStrip(SubSeq(s, 1, Len(s) - 1))
    ELSE s

Strip(s) == RStrip(LStrip(s))

\* str.startswith
StartsWith(s, p) == Len(s) >= Len(p) /\ SubSeq(s, 1, Len(p)) = p

\* pd.notna
notna(cell) == cell # NaN

(***************************************************************************)
(* Extractor, Steps 1 and 2 of process_abi_data                            *)
(***************************************************************************)
categories ==
    {"All ABI", "Head injuries", "Stroke", "Meningitis", "Brain tumour",
     "Abscess", "Anoxia", "Other_disorders", "CO poisoning"}

\* Step 1 on one cell
ReplaceOther(cell) ==
    IF notna(cell) /\ StartsWith(Strip(cell), "Other disorders")
    THEN "Other_disorders"
    ELSE cell

ReplaceOtherDisorders(df) ==
    [r \in 1..Len(df) |-> [c \in 1..Len(df[r]) |-> ReplaceOther(df[r][c])]]

IsCategoryCell(cell) == notna(cell) /\ Strip(cell) \in categories

\* (a propagation that stops one cell short)
TargetColumnsFour(c, n) == {c + i : i \in 1..4} \cap (1..n)

\* the (at most five) columns to the right of column c in a row of width n
TargetColumns(c, n) == {c + i : i \in 1..5} \cap (1..n)

\* the guard of Step 2: some target already holds the cell's trimmed text
ShouldCopy(proc, c, cell) ==
    ~ \E t \in TargetColumns(c, Len(proc)) :
          notna(proc[t]) /\ Strip(proc[t]) = Strip(cell)

\* Step 2 on one row, columns c.. : orig is the row of original_df, proc the
\* row of processed_df as rewritten so far
RECURSIVE CopyRowFrom(_, _, _)
CopyRowFrom(orig, proc, c) ==
    IF c > Len(orig) THEN proc
    ELSE LET cell == orig[c]
             next == IF IsCategoryCell(cell) /\ ShouldCopy(proc, c, cell)
                     THEN [t \in 1..Len(proc) |->
                              IF t \in TargetColumns(c, Len(proc)) THEN cell
                              ELSE proc[t]]
                     ELSE proc
         IN  CopyRowFrom(orig, next, c + 1)

CopyCategories(df) == [r \in 1..Len(df) |-> CopyRowFrom(df[r], df[r], 1)]

(***************************************************************************)
(* Concatenator: files and frames                                          *)
(*                                                                         *)
(* A CSV file on disk is the sequence of its rows, each a sequence of cell *)
(* texts; the files explored are rectangular.  A file of no rows is an     *)
(* empty file, which pd.read_csv refuses (EmptyDataError).  A frame is     *)
(* [ncols, rows]: a frame keeps its columns when it has no rows.           *)
(***************************************************************************)
EmptyFile == <<>>

\* texts pd.read_csv reads as missing (its default na_values)
NaValues ==
    {"", "#N/A", "#N/A N/A", "#NA", "-1.#IND", "-1.#QNAN", "-NaN", "-nan",
     "1.#IND", "1.#QNAN", "<NA>", "N/A", "NA", "NULL", "NaN", "None", "n/a",
     "nan", "null"}

ReadCell(text) == IF text \in NaValues THEN NaN ELSE text

\* to_csv writes a missing value as the empty text (na_rep='')
WriteCell(cell) == IF cell = NaN THEN "" ELSE cell

\* pd.read_csv raises on this file
ReadFails(file) == file = EmptyFile

\* pd.read_csv(file_path, header=None), for a file it can read
read_csv(file) ==
    [ncols |-> Len(file[1]),
     rows  |-> [r \in 1..Len(file) |->
                   [c \in 1..Len(file[r]) |-> ReadCell(file[r][c])]]]

\* pd.read_csv(file_path, header=None, nrows=1).iloc[0].tolist()
read_header(file) == [c \in 1..Len(file[1]) |-> ReadCell(file[1][c])]

\* df.to_csv(path, index=False, header=False): the content written
to_csv(df) ==
    [r \in 1..Len(df.rows) |->
        [c \in 1..Len(df.rows[r]) |-> WriteCell(df.rows[r][c])]]

\* a file at a path: absent, or present with a content
Absent == [exists |-> FALSE, content |-> EmptyFile]
Present(content) == [exists |-> TRUE, content |-> content]

(***************************************************************************)
(* test_header_consistency                                                 *)
(***************************************************************************)
\* Python's == on two cells read by pandas: a missing value equals nothing
CellEq(a, b) == a # NaN /\ b # NaN /\ a = b

\* current_header == reference_header, on lists
HeaderEq(cur, ref) ==
    /\ Len(cur) = Len(ref)
    /\ \A c \in 1..Len(cur) : CellEq(cur[c], ref[c])

\* reference_header is None
NoHeader == <<>>

\* the loop from file i on; ref is reference_header, bad inconsistent_files
\* (the positions of the files in the list)
RECURSIVE TestFrom(_, _, _, _)
TestFrom(files, i, ref, bad) ==
    IF i > Len(files)
    THEN [is_consistent |-> bad = <<>>, reference_header |-> ref,
          inconsistent_files |-> bad]
    ELSE IF ReadFails(files[i]) THEN TestFrom(files, i + 1, ref, Append(bad, i))
    ELSE IF ref = NoHeader THEN TestFrom(files, i + 1, read_header(files[i]), bad)
    ELSE IF HeaderEq(read_header(files[i]), ref) THEN TestFrom(files, i + 1, ref, bad)
    ELSE TestFrom(files, i + 1, ref, Append(bad, i))

test_header_consistency(files) ==
    IF files = <<>>
    THEN [is_consistent |-> FALSE, reference_header |-> NoHeader,
          inconsistent_files |-> <<>>]
    ELSE TestFrom(files, 1, NoHeader, <<>>)

NotTested ==
    [is_consistent |-> FALSE, reference_header |-> NoHeader,
     inconsistent_files |-> <<>>]

(***************************************************************************)
(* combine_csv_files                                                       *)
(***************************************************************************)
\* combine_csv_files returned None
NoFrame == [none |-> TRUE, ncols |-> 0, rows |-> <<>>]

\* `if region_name:`
Truthy(text) == text # None /\ text # ""

\* df.insert(0, 'Region', region_name), and for the file at position 1
\* df.iloc[0, 0] = 'Region'
InsertRegion(df, i, name) ==
    [ncols |-> df.ncols + 1,
     rows  |-> [r \in 1..Len(df.rows) |->
                   <<IF i = 1 /\ r = 1 THEN "Region" ELSE name>> \o df.rows[r]]]

\* (the first row of a later file kept)
DropNothing(df) == df

\* (the first two rows of a later file dropped)
DropTwoRows(df) ==
    [ncols |-> df.ncols, rows |-> SubSeq(df.rows, 3, Len(df.rows))]

\* df.iloc[1:]
DropFirstRow(df) == [ncols |-> df.ncols, rows |-> Tail(df.rows)]

\* the frame appended to combined_dataframes for the file at position i
FrameOf(file, i, name) ==
    LET df == read_csv(file)
        tagged == IF Truthy(name) THEN InsertRegion(df, i, name) ELSE df
    IN  IF i > 1 THEN DropFirstRow(tagged) ELSE tagged

\* combined_dataframes, built from position i on
RECURSIVE FramesFrom(_, _, _)
FramesFrom(files, i, name) ==
    IF i > Len(files) THEN <<>>
    ELSE IF ReadFails(files[i]) THEN FramesFrom(files, i + 1, name)
    ELSE <<FrameOf(files[i], i, name)>> \o FramesFrom(files, i + 1, name)

RECURSIVE MaxCols(_)
MaxCols(dfs) == IF dfs = <<>> THEN 0 ELSE Max(Head(dfs).ncols, MaxCols(Tail(dfs)))

\* a row extended with missing values to n cells
PadRow(row, n) == [c \in 1..n |-> IF c <= Len(row) THEN row[c] ELSE NaN]

RECURSIVE StackRows(_, _)
StackRows(dfs, n) ==
    IF dfs = <<>> THEN <<>>
    ELSE [r \in 1..Len(Head(dfs).rows) |-> PadRow(Head(dfs).rows[r], n)]
             \o StackRows(Tail(dfs), n)

\* pd.concat(dfs, ignore_index=True): the union of the columns, in order,
\* the rows stacked, a row of a narrower frame missing the other columns
concat(dfs) ==
    [none |-> FALSE, ncols |-> MaxCols(dfs), rows |-> StackRows(dfs, MaxCols(dfs))]

combine_csv_files(files, name) ==
    IF files = <<>> \/ FramesFrom(files, 1, name) = <<>> THEN NoFrame
    ELSE concat(FramesFrom(files, 1, name))

(***************************************************************************)
(* get_numeric_csv_files                                                   *)
(***************************************************************************)
\* the characters of the file names explored, in code-point order
AsciiOrder ==
    " -.0123456789ABCDEFGHIJKLMNOPQRSTUVWXYZ_abcdefghijklmnopqrstuvwxyz"

Ord(ch) == CHOOSE k \in 1..Len(AsciiOrder) : CharAt(AsciiOrder, k) = ch

\* Python's < on str
RECURSIVE StrLess(_, _)
StrLess(a, b) ==
    IF b = "" THEN FALSE
    ELSE IF a = "" THEN TRUE
    ELSE IF CharAt(a, 1) = CharAt(b, 1)
         THEN StrLess(SubSeq(a, 2, Len(a)), SubSeq(b, 2, Len(b)))
         ELSE Ord(CharAt(a, 1)) < Ord(CharAt(b, 1))

Digits == {"0", "1", "2", "3", "4", "5", "6", "7", "8", "9"}

\* (a selection that takes every file with a name)
BeginsWithAnything(stem) == Len(stem) > 0

\* re.match(r'^\d', filename)
BeginsWithDigit(stem) == Len(stem) > 0 /\ CharAt(stem, 1) \in Digits

\* directory_path.glob("*.csv"): the stems of the files present in a folder
glob_csv(folder) == {n \in DOMAIN folder : folder[n].exists}

\* sorted(paths) of one folder: by file name, stem and extension
RECURSIVE SortedNames(_)
SortedNames(names) ==
    IF names = {} THEN <<>>
    ELSE LET first == CHOOSE n \in names :
                          \A m \in names \ {n} : StrLess(n \o ".csv", m \o ".csv")
         IN  <<first>> \o SortedNames(names \ {first})

\* (every CSV of the folder taken, whatever its name)
get_all_csv_files(folder) == SortedNames(glob_csv(folder))

get_numeric_csv_files(folder) ==
    SortedNames({n \in glob_csv(folder) : BeginsWithDigit(n)})

\* the contents of the files named, in order
ContentsOf(folder, names) == [k \in 1..Len(names) |-> folder[names[k]].content]

(***************************************************************************)
(* combine_regional_files                                                  *)
(***************************************************************************)
RegionalFrameOf(file, i) ==
    IF i > 1 THEN DropFirstRow(read_csv(file)) ELSE read_csv(file)

RECURSIVE RegionalFramesFrom(_, _)
RegionalFramesFrom(files, i) ==
    IF i > Len(files) THEN <<>>
    ELSE IF ReadFails(files[i]) THEN RegionalFramesFrom(files, i + 1)
    ELSE <<RegionalFrameOf(files[i], i)>> \o RegionalFramesFrom(files, i + 1)

\* (a roll-up that refuses constituents whose headers differ)
combine_regional_files_strict(files) ==
    IF files = <<>> \/ RegionalFramesFrom(files, 1) = <<>>
       \/ ~test_header_consistency(files).is_consistent
    THEN NoFrame
    ELSE concat(RegionalFramesFrom(files, 1))

combine_regional_files(files) ==
    IF files = <<>> \/ RegionalFramesFrom(files, 1) = <<>> THEN NoFrame
    ELSE concat(RegionalFramesFrom(files, 1))

(***************************************************************************)
(* Input CSV files explored                                                *)
(***************************************************************************)
\* row 0 of an input file: the same, one cell different, one cell fewer, and
\* one with a blank cell
FolderHeaders ==
    {<<"Organisation", "Count">>, <<"Organisation", "Rate">>, <<"Organisation">>}

Headers == FolderHeaders \cup {<<"Organisation", "">>}

Digit(n) == CharAt("0123456789", n + 1)

\* data row j of the file tagged `tag`: every cell names its file, row, column
DataRow(tag, j, w) == [c \in 1..w |-> tag \o "r" \o Digit(j) \o "c" \o Digit(c)]

\* a file of row 0 `header` and n data rows
Table(header, n, tag) ==
    <<header>> \o [j \in 1..n |-> DataRow(tag, j, Len(header))]

\* what a file is made from: its row 0 and its number of data rows, or no
\* row 0 at all for an empty file
Shapes == (Headers \cup {<<>>}) \X (0..MaxDataRows)

FileOf(shape, tag) ==
    IF shape[1] = <<>> THEN EmptyFile ELSE Table(shape[1], shape[2], tag)

FileLists ==
    {[i \in 1..Len(shapes) |-> FileOf(shapes[i], "f" \o Digit(i))] :
        shapes \in UNION {[1..k -> Shapes] : k \in 0..MaxFiles}}

(***************************************************************************)
(* The folders explored: base_dir with the subfolders North and South.     *)
(* North may hold the numeric-named files 10.csv, 2.csv, 3.csv and the     *)
(* file Table_1.csv; South may hold 1.csv; each subfolder holds the file   *)
(* named after it (the Extractor's dump of the whole sheet).               *)
(***************************************************************************)
Regions == {"North", "South"}

NumericNames(d) == IF d = "North" THEN {"10", "2", "3"} ELSE {"1"}

OtherNames(d) == IF d = "North" THEN {"Table_1"} ELSE {}

NamesIn(d) == NumericNames(d) \cup OtherNames(d) \cup {d}

\* rows of the files of folder d are tagged with d's initial and the stem
TagOf(d, n) == CharAt(d, 1) \o n

FolderShapes == (FolderHeaders \cup {<<>>}) \X (0..MaxDataRows)

FilesAt(d, n) ==
    IF n = d THEN {Present(Table(<<"Sheet">>, 1, TagOf(d, n)))}
    ELSE IF n \in NumericNames(d)
    THEN {Absent} \cup {Present(FileOf(sh, TagOf(d, n))) : sh \in FolderShapes}
    ELSE {Absent, Present(Table(<<"Organisation", "Count">>, 1, TagOf(d, n)))}

RECURSIVE FoldersOver(_, _)
FoldersOver(d, names) ==
    IF names = {} THEN {<<>>}
    ELSE LET n == CHOOSE m \in names : TRUE
         IN  {(n :> x) @@ f : x \in FilesAt(d, n), f \in FoldersOver(d, names \ {n})}

Folders(d) == FoldersOver(d, NamesIn(d))

Disks ==
    {[d \in Regions |-> IF d = "North" THEN a ELSE b] :
        a \in Folders("North"), b \in Folders("South")}

NoDisk == [d \in Regions |-> [n \in NamesIn(d) |-> Absent]]

\* the orders in which iterdir() may list a set of subfolders
RECURSIVE Orders(_)
Orders(set) ==
    IF set = {} THEN {<<>>}
    ELSE UNION {{<<d>> \o rest : rest \in Orders(set \ {d})} : d \in set}

(***************************************************************************)
(* The Extractor's run                                                     *)
(***************************************************************************)
\* cells of the sheets explored
SheetCells == {NaN, "Stroke", " Stroke", "Other disorders (encephalitis)"}

Sheets == {<<row>> : row \in [1..SheetWidth -> SheetCells]}

LogIdle ==
    /\ events = <<>>
    /\ runs = 1
    /\ last_listing = <<>>
    /\ processed_count = 0
    /\ failed = {}

ExcelBatchIdle ==
    /\ epc = "idle"
    /\ input_exists = FALSE
    /\ excel_files = <<>>
    /\ excel_file = 0
    /\ output_path = [exists |-> FALSE, folders |-> <<>>]

CsvBatchIdle ==
    /\ bpc = "idle"
    /\ csv_list = <<>>
    /\ file_idx = 0
    /\ total_files_processed = 0
    /\ read_only = {}

DashboardIdle ==
    /\ dpc = "idle"
    /\ clock = 0
    /\ mtime = 0
    /\ version = 0
    /\ cache = <<>>
    /\ cache_key = 0
    /\ shown = 0
    /\ file_reads = 0
    /\ stamps = <<>>
    /\ stat_version = 0

BatchIdle == LogIdle /\ ExcelBatchIdle /\ CsvBatchIdle /\ DashboardIdle

SplitIdle ==
    /\ clean_sheet_name = ""
    /\ split_dataframes = <<>>
    /\ output_subfolder = <<>>

NormalizerIdle ==
    /\ npc = "idle"
    /\ csv_file = Absent
    /\ csv_df = <<>>

YearIdle ==
    /\ ypc = "idle"
    /\ year_string = ""
    /\ year_out = ""

ExtractorIdle ==
    /\ xpc = "idle"
    /\ original_df = <<>>
    /\ processed_df = <<>>

PipelineIdle ==
    /\ ppc = "idle"
    /\ base_exists = FALSE
    /\ dirs = {}
    /\ disk = NoDisk
    /\ england = Absent
    /\ subfolders = <<>>
    /\ idx = 0
    /\ regional_files = <<>>
    /\ warnings = {}

FunctionsIdle ==
    /\ fpc = "idle"
    /\ csv_files = <<>>
    /\ region_name = None
    /\ header_test = NotTested
    /\ combined = NoFrame
    /\ written = Absent

\* the sheet as read with skiprows=6, copied to processed_df
InitExtractor ==
    /\ BatchIdle
    /\ FunctionsIdle
    /\ PipelineIdle
    /\ SplitIdle
    /\ NormalizerIdle
    /\ YearIdle
    /\ xpc = "step1"
    /\ processed_df \in Sheets
    /\ original_df = <<>>

Step1 ==
    /\ xpc = "step1"
    /\ processed_df' = ReplaceOtherDisorders(processed_df)
    /\ xpc' = "step2"
    /\ UNCHANGED <<original_df, fvars, pvars,
                 svars, nvars, yvars, rvars, tvars>>

Step2 ==
    /\ xpc = "step2"
    /\ original_df' = processed_df
    /\ processed_df' = CopyCategories(processed_df)
    /\ xpc' = "step3"
    /\ UNCHANGED <<fvars, pvars,
                 svars, nvars, yvars, rvars, tvars>>

NextExtractor == Step1 \/ Step2

(***************************************************************************)
(* The Concatenator's functions called on a list of files                  *)
(***************************************************************************)
InitFunctions ==
    /\ BatchIdle
    /\ ExtractorIdle
    /\ PipelineIdle
    /\ SplitIdle
    /\ NormalizerIdle
    /\ YearIdle
    /\ fpc = "test"
    /\ csv_files \in FileLists
    /\ region_name \in {None, "Yorkshire"}
    /\ header_test = NotTested
    /\ combined = NoFrame
    /\ written = Absent

TestHeaders ==
    /\ fpc = "test"
    /\ header_test' = test_header_consistency(csv_files)
    /\ fpc' = "combine"
    /\ UNCHANGED <<csv_files, region_name, combined, written, xvars, pvars,
                 svars, nvars, yvars, rvars, tvars>>

Combine ==
    /\ fpc = "combine"
    /\ combined' = combine_csv_files(csv_files, region_name)
    /\ written' = IF combine_csv_files(csv_files, region_name).none THEN written
                  ELSE Present(to_csv(combine_csv_files(csv_files, region_name)))
    /\ fpc' = "done"
    /\ UNCHANGED <<csv_files, region_name, header_test, xvars, pvars,
                 svars, nvars, yvars, rvars, tvars>>

(***************************************************************************)
(* process_all_subfolders                                                  *)
(***************************************************************************)
InitPipeline ==
    /\ BatchIdle
    /\ ExtractorIdle
    /\ FunctionsIdle
    /\ SplitIdle
    /\ NormalizerIdle
    /\ YearIdle
    /\ ppc = "start"
    /\ \/ base_exists = FALSE /\ dirs = {} /\ disk = NoDisk
       \/ base_exists = TRUE /\ dirs = {} /\ disk = NoDisk
       \/ base_exists = TRUE /\ dirs = Regions /\ disk \in Disks
    /\ england = Absent
    /\ subfolders = <<>>
    /\ idx = 0
    /\ regional_files = <<>>
    /\ warnings = {}

\* `if not base_path.exists(): return`
BaseMissing ==
    /\ ppc = "start"
    /\ ~base_exists
    /\ ppc' = "done"
    /\ UNCHANGED <<base_exists, dirs, disk, england, subfolders, idx,
                   regional_files, warnings, xvars, fvars,
                 svars, nvars, yvars, rvars, tvars>>

\* `if not subfolders: return`
NoSubfolders ==
    /\ ppc = "start"
    /\ base_exists
    /\ dirs = {}
    /\ ppc' = "done"
    /\ UNCHANGED <<base_exists, dirs, disk, england, subfolders, idx,
                   regional_files, warnings, xvars, fvars,
                 svars, nvars, yvars, rvars, tvars>>

\* subfolders = [f for f in base_path.iterdir() if f.is_dir()]
ListSubfolders ==
    /\ ppc = "start"
    /\ base_exists
    /\ dirs # {}
    /\ subfolders' \in Orders(dirs)
    /\ idx' = 1
    /\ ppc' = "loop"
    /\ UNCHANGED <<base_exists, dirs, disk, england, regional_files, warnings,
                   xvars, fvars,
                 svars, nvars, yvars, rvars, tvars>>

\* one turn of the loop: no numeric CSV file in the subfolder
SkipSubfolder ==
    /\ ppc = "loop"
    /\ idx <= Len(subfolders)
    /\ get_numeric_csv_files(disk[subfolders[idx]]) = <<>>
    /\ idx' = idx + 1
    /\ UNCHANGED <<ppc, base_exists, dirs, disk, england, subfolders,
                   regional_files, warnings, xvars, fvars,
                 svars, nvars, yvars, rvars, tvars>>

\* the log of one input file: what was done to it
Flatten(seqs) ==
    LET RECURSIVE From(_)
        From(k) == IF k > Len(seqs) THEN <<>> ELSE seqs[k] \o From(k + 1)
    IN  From(1)

\* a read_csv call on file p and what became of it: its frame kept, or the
\* exception printed
ReadEvents(p, fails) ==
    IF fails THEN << <<"read", p>>, <<"error", p>> >>
    ELSE << <<"read", p>>, <<"transformed", p>> >>

\* the files whose frames are in a table that has been written
WrittenEvents(paths, files) ==
    Flatten([k \in 1..Len(paths) |->
                IF ReadFails(files[k]) THEN <<>> ELSE << <<"written", paths[k]>> >>])

\* (a turn that tests the headers after it has combined the files)
CombineBeforeTest(d, names, files) ==
    LET paths == [k \in 1..Len(names) |-> <<d, names[k]>>]
    IN  Flatten([k \in 1..Len(names) |->
                    ReadEvents(paths[k], ReadFails(files[k]))])
        \o [k \in 1..Len(names) |-> <<"read", paths[k]>>]
        \o WrittenEvents(paths, files)

\* one subfolder's turn: every file read by test_header_consistency, then
\* every file read by combine_csv_files, then the combined table written
SubfolderEvents(d, names, files) ==
    LET paths == [k \in 1..Len(names) |-> <<d, names[k]>>]
    IN  [k \in 1..Len(names) |-> <<"read", paths[k]>>]
        \o Flatten([k \in 1..Len(names) |->
                       ReadEvents(paths[k], ReadFails(files[k]))])
        \o WrittenEvents(paths, files)

\* combine_regional_files: every regional file read, then England.csv written
RegionalEvents(names, files) ==
    LET paths == [k \in 1..Len(names) |-> <<names[k], names[k]>>]
    IN  Flatten([k \in 1..Len(names) |->
                    ReadEvents(paths[k], ReadFails(files[k]))])
        \o WrittenEvents(paths, files)

\* (a combined table saved beside the files of the subfolder, under a name
\* of its own)
CombinedFilename(d) == "combined"

\* output_filename = f"{subfolder.name}.csv": the stem of the combined file
output_filename(d) == d

\* one turn of the loop: the subfolder's numeric files tested and combined
ProcessSubfolder ==
    /\ ppc = "loop"
    /\ idx <= Len(subfolders)
    /\ LET d == subfolders[idx]
           numeric_files == get_numeric_csv_files(disk[d])
           files == ContentsOf(disk[d], numeric_files)
           test == test_header_consistency(files)
           combined_df == combine_csv_files(files, d)
       IN  /\ numeric_files # <<>>
           /\ warnings' = IF test.is_consistent THEN warnings
                          ELSE warnings \cup {d}
           /\ disk' = IF combined_df.none THEN disk
                      ELSE [disk EXCEPT ![d][output_filename(d)] =
                                          Present(to_csv(combined_df))]
           /\ regional_files' = IF combined_df.none THEN regional_files
                                ELSE Append(regional_files, d)
           /\ processed_count' = IF combined_df.none THEN processed_count
                                 ELSE processed_count + 1
           /\ events' = events \o SubfolderEvents(d, numeric_files, files)
    /\ idx' = idx + 1
    /\ UNCHANGED <<ppc, base_exists, dirs, england, subfolders, xvars, fvars,
                 svars, nvars, yvars, runs, last_listing, failed, tvars>>

\* the regional files as they are on disk when combine_regional_files reads
RegionalContents ==
    [k \in 1..Len(regional_files) |->
        disk[regional_files[k]][regional_files[k]].content]

\* `if regional_files:` combine them into England.csv
CombineRegional ==
    /\ ppc = "loop"
    /\ idx > Len(subfolders)
    /\ regional_files # <<>>
    /\ england' = IF combine_regional_files(RegionalContents).none THEN england
                  ELSE Present(to_csv(combine_regional_files(RegionalContents)))
    /\ events' = events \o RegionalEvents(regional_files, RegionalContents)
    /\ ppc' = "done"
    /\ UNCHANGED <<base_exists, dirs, disk, subfolders, idx, regional_files,
                   warnings, xvars, fvars,
                 svars, nvars, yvars, runs, last_listing, processed_count,
                 failed, tvars>>

NoRegionalFiles ==
    /\ ppc = "loop"
    /\ idx > Len(subfolders)
    /\ regional_files = <<>>
    /\ ppc' = "done"
    /\ UNCHANGED <<base_exists, dirs, disk, england, subfolders, idx,
                   regional_files, warnings, xvars, fvars,
                 svars, nvars, yvars, rvars, tvars>>

NextPipeline ==
    \/ BaseMissing
    \/ NoSubfolders
    \/ ListSubfolders
    \/ SkipSubfolder
    \/ ProcessSubfolder
    \/ CombineRegional
    \/ NoRegionalFiles

SpecPipeline == InitPipeline /\ [][NextPipeline]_vars

MaxRuns == 2        \* how many times a stage is run over the same folders

\* csv_combiner.py is started again over the folders it has left
RunCombinerAgain ==
    /\ ppc = "done"
    /\ runs < MaxRuns
    /\ runs' = runs + 1
    /\ last_listing' = subfolders
    /\ ppc' = "start"
    /\ subfolders' = <<>>
    /\ idx' = 0
    /\ regional_files' = <<>>
    /\ warnings' = {}
    /\ processed_count' = 0
    /\ events' = <<>>
    /\ UNCHANGED <<base_exists, dirs, disk, england, failed, xvars, fvars,
                   svars, nvars, yvars, tvars>>

NextRerun == NextPipeline \/ RunCombinerAgain

\* the folders of the runs: as for one run, North with two numeric-named
\* files at most
InitRerun == InitPipeline /\ disk["North"]["3"] = Absent

SpecRerun == InitRerun /\ [][NextRerun]_vars

NextFunctions == TestHeaders \/ Combine

SpecFunctions == InitFunctions /\ [][NextFunctions]_vars

(***************************************************************************)
(* Normalizer: standardize_financial_year                                  *)
(***************************************************************************)
IsDigits(s) == \A i \in 1..Len(s) : CharAt(s, i) \in Digits

\* re.match(r'^(\d{4})-(\d{4})$', year_str)
MatchesFullYear(s) ==
    /\ Len(s) = 9
    /\ IsDigits(SubSeq(s, 1, 4))
    /\ CharAt(s, 5) = "-"
    /\ IsDigits(SubSeq(s, 6, 9))

DigitValue(c) == CHOOSE n \in 0..9 : Digit(n) = c

\* int() of a string of decimal digits
RECURSIVE int(_)
int(s) ==
    IF Len(s) = 0 THEN 0
    ELSE 10 * int(SubSeq(s, 1, Len(s) - 1)) + DigitValue(CharAt(s, Len(s)))

\* str() of a natural number
RECURSIVE str(_)
str(n) == IF n < 10 THEN Digit(n) ELSE str(n \div 10) \o Digit(n % 10)

\* s[-2:]
LastTwo(s) == IF Len(s) <= 2 THEN s ELSE SubSeq(s, Len(s) - 1, Len(s))

\* str(end_year)[-2:]
EndYearShort(s) == LastTwo(s)

standardize_financial_year(y) ==
    IF y = NaN \/ y = "" THEN y
    ELSE LET year_str == Strip(y)
         IN  IF MatchesFullYear(year_str)
             THEN LET start_year == int(SubSeq(year_str, 1, 4))
                      end_year == int(SubSeq(year_str, 6, 9))
                  IN  str(start_year) \o "-" \o EndYearShort(str(end_year))
             ELSE year_str

\* the year strings explored: two groups of digits around a separator,
\* with or without surrounding blanks
YearGroups == {"2014", "2015", "1999", "2000", "0014", "0005"}
ShortGroups == {"15", "05"}
YearPads == {"", " "}

YearStrings ==
    {""} \cup
    {lead \o a \o sep \o b \o trail :
        lead \in YearPads, a \in YearGroups, sep \in {"-", "/"},
        b \in YearGroups \cup ShortGroups, trail \in YearPads}

InitYear ==
    /\ BatchIdle
    /\ ExtractorIdle
    /\ FunctionsIdle
    /\ PipelineIdle
    /\ SplitIdle
    /\ NormalizerIdle
    /\ ypc = "call"
    /\ year_string \in YearStrings
    /\ year_out = ""

Standardize ==
    /\ ypc = "call"
    /\ year_out' = standardize_financial_year(year_string)
    /\ ypc' = "done"
    /\ UNCHANGED <<year_string, xvars, fvars, pvars, svars, nvars, rvars, tvars>>

NextYear == Standardize

SpecYear == InitYear /\ [][NextYear]_vars

(***************************************************************************)
(* Normalizer: process_csv_file and process_total_count_rows               *)
(*                                                                         *)
(* The frame is a sequence of rows, each a sequence of cells; every column *)
(* holds texts (dtype object), as row 0 and row 1 of the file are texts.   *)
(***************************************************************************)
\* str.replace(old, new) for a single character old
RECURSIVE Replace(_, _, _)
Replace(s, old, new) ==
    IF Len(s) = 0 THEN ""
    ELSE (IF CharAt(s, 1) = old THEN new ELSE CharAt(s, 1))
             \o Replace(SubSeq(s, 2, Len(s)), old, new)

\* '_' in s
Contains(s, ch) == \E i \in 1..Len(s) : CharAt(s, i) = ch

\* s.split(ch)[0]
RECURSIVE SplitFirst(_, _)
SplitFirst(s, ch) ==
    IF Len(s) = 0 \/ CharAt(s, 1) = ch THEN ""
    ELSE CharAt(s, 1) \o SplitFirst(SubSeq(s, 2, Len(s)), ch)

\* str(cell)
strcell(cell) == IF cell = NaN THEN "nan" ELSE cell

\* x if pd.notna(x) else ""
OrEmpty(cell) == IF notna(cell) THEN cell ELSE ""

\* the frame with row r, column c set to v
SetCell(df, r, c, v) ==
    [i \in 1..Len(df) |->
        IF i = r THEN [j \in 1..Len(df[i]) |-> IF j = c THEN v ELSE df[i][j]]
        ELSE df[i]]

\* df.insert(0, name, value): a new first column holding value in every row
InsertColumn(df, value) == [i \in 1..Len(df) |-> <<value>> \o df[i]]

\* Step 1: spaces of row 0 become underscores
ReplaceSpaces(cell) == IF notna(cell) THEN Replace(cell, " ", "_") ELSE cell

UnderscoreHeader(df) ==
    [i \in 1..Len(df) |->
        IF i = 1 THEN [j \in 1..Len(df[1]) |-> ReplaceSpaces(df[1][j])]
        ELSE df[i]]

\* Step 2: row 0 and row 1 joined, for every column but the first
Concatenated(first, second) ==
    LET first_cell == OrEmpty(first)
        second_cell == OrEmpty(second)
    IN  IF first_cell # "" /\ second_cell # ""
        THEN first_cell \o "_" \o second_cell
        ELSE IF first_cell # "" THEN first_cell
        ELSE IF second_cell # "" THEN second_cell
        ELSE first

FlattenHeader(df) ==
    [i \in 1..Len(df) |->
        IF i = 1
        THEN [j \in 1..Len(df[1]) |->
                 IF j = 1 THEN df[1][1] ELSE Concatenated(df[1][j], df[2][j])]
        ELSE df[i]]

\* (a Regime value that keeps its spaces)
KeepSpaces(text) == text

\* Step 2.5: str(second_row_first_cell).replace(' ', '')
RemoveSpaces(text) == Replace(text, " ", "")

InsertRegime(df) ==
    LET second_row_first_cell_cleaned == RemoveSpaces(OrEmpty(df[2][1]))
    IN  SetCell(InsertColumn(df, second_row_first_cell_cleaned),
                1, 1, "Regime")

\* (a year column taken from the Regime header)
YearSourceFirst(df) == OrEmpty(df[1][1])

\* Step 3: the cell the year column is filled from
YearSource(df) == OrEmpty(df[1][2])

InsertYear(df) == InsertColumn(df, YearSource(df))

\* (a Step 5 that drops no row)
KeepSecondRow(df) == df

\* Step 5: df.drop(df.index[1])
DropSecondRow(df) ==
    [i \in 1..(Len(df) - 1) |-> IF i = 1 THEN df[1] ELSE df[i + 1]]

\* (a truncation that reaches the third column)
TruncatedColumnsThree(n) == 1..(IF n < 3 THEN n ELSE 3)

\* Step 6: range(min(2, len(df.columns)))
TruncatedColumns(n) == 1..(IF n < 2 THEN n ELSE 2)

CutAtUnderscore(cell) ==
    IF notna(cell) /\ Contains(cell, "_") THEN SplitFirst(cell, "_")
    ELSE cell

TruncateColumns(df) ==
    [i \in 1..Len(df) |->
        [j \in 1..Len(df[i]) |->
            IF j \in TruncatedColumns(Len(df[i])) THEN CutAtUnderscore(df[i][j])
            ELSE df[i][j]]]

\* (a Step 7 that names the column otherwise)
OrganisationHeaderOther(df) ==
    IF Len(df[1]) >= 3 THEN SetCell(df, 1, 3, "Organization") ELSE df

\* Step 7
OrganisationHeader(df) ==
    IF Len(df[1]) >= 3 THEN SetCell(df, 1, 3, "Organisation") ELSE df

\* Step 8: the year column of every row after row 0
StandardizeYears(df) ==
    [i \in 1..Len(df) |->
        IF i >= 2 /\ notna(df[i][1])
        THEN [j \in 1..Len(df[i]) |->
                 IF j = 1 THEN standardize_financial_year(df[i][1])
                 ELSE df[i][j]]
        ELSE df[i]]

\* process_total_count_rows: the first column whose header is Organisation
\* (0 for None)
RECURSIVE OrgColumnFrom(_, _)
OrgColumnFrom(header, i) ==
    IF i > Len(header) THEN 0
    ELSE IF Strip(strcell(header[i])) = "Organisation" THEN i
    ELSE OrgColumnFrom(header, i + 1)

\* (a range that takes every column after the Organisation column)
NumericRangeAll(header, i, start) ==
    IF Len(header) >= 4 THEN <<4, Len(header)>> ELSE <<0, 0>>

\* the loop over the header that sets start_col_idx and end_col_idx and
\* breaks at the end header: <<start_col_idx, end_col_idx>> (0 for None)
RECURSIVE NumericRangeFrom(_, _, _)
NumericRangeFrom(header, i, start) ==
    IF i > Len(header) THEN <<start, 0>>
    ELSE LET col_name == Strip(strcell(header[i]))
         IN  IF col_name = "All_ABI__Female_Count"
             THEN NumericRangeFrom(header, i + 1, i)
             ELSE IF col_name = "Other_disorders_Total_Rate"
             THEN <<start, i>>
             ELSE NumericRangeFrom(header, i + 1, start)

\* (a zeroing that stops before the end column)
ZeroedColumnsOpen(start, end) == start..(end - 1)

\* range(start_col_idx, end_col_idx + 1)
ZeroedColumns(start, end) == start..end

\* (a row test that takes every row)
IsAnyRow(cell) == TRUE

\* str(df.iloc[row_idx, org_column_idx]).strip() == 'Total_Count'
IsTotalCount(cell) == Strip(strcell(cell)) = "Total_Count"

\* the early returns: empty frame, no Organisation column, no numeric range
SkipsTotalCount(df) ==
    \/ Len(df) = 0
    \/ Len(df[1]) = 0
    \/ OrgColumnFrom(df[1], 1) = 0
    \/ NumericRangeFrom(df[1], 1, 0)[1] = 0
    \/ NumericRangeFrom(df[1], 1, 0)[2] = 0

process_total_count_rows(df) ==
    IF SkipsTotalCount(df) THEN df
    ELSE LET org_column_idx == OrgColumnFrom(df[1], 1)
             range == NumericRangeFrom(df[1], 1, 0)
         IN  [i \in 1..Len(df) |->
                IF i >= 2 /\ IsTotalCount(df[i][org_column_idx])
                THEN [j \in 1..Len(df[i]) |->
                         IF j \in ZeroedColumns(range[1], range[2]) THEN "0"
                         ELSE IF j = org_column_idx THEN "unknown"
                         ELSE df[i][j]]
                ELSE df[i]]

(***************************************************************************)
(* The Normalizer's run on one file                                        *)
(***************************************************************************)
\* the metric columns of an input file: <<row 0 cell, row 1 cell>>
StartColumn == <<"All ABI ", "Female_Count">>
EndColumn == <<"Other_disorders", "Total_Rate">>
ColumnKinds ==
    {StartColumn, EndColumn, <<"Stroke", "">>, <<"", "Male_Count">>,
     <<"", "">>}

\* the sequences of at most n distinct members of set
RECURSIVE DistinctSeqs(_, _)
DistinctSeqs(set, n) ==
    IF n = 0 THEN {<<>>}
    ELSE {<<>>} \cup
         UNION {{<<k>> \o rest : rest \in DistinctSeqs(set \ {k}, n - 1)} :
                   k \in set}

\* the first two cells of column 0: the year label and the regime label
Labels ==
    {<<"2014-2015 Financial Year", "NHS England">>,
     <<"2014/15", "CCG_North East">>,
     <<"", "">>}

\* the data rows: <<Organisation cell, cell of every metric column>>
RecordKinds ==
    {<<"Leeds", "7">>, <<"Total_Count", "5">>, <<"Total_Count ", "5">>,
     <<"St_James", "A_B">>}

RECURSIVE SeqsUpTo(_, _)
SeqsUpTo(set, n) ==
    IF n = 0 THEN {<<>>}
    ELSE {<<>>} \cup
         UNION {{<<k>> \o rest : rest \in SeqsUpTo(set, n - 1)} : k \in set}

\* row 1 cell of a metric column; padded: the end column's cell is followed
\* by a blank
SecondCell(kind, padded) ==
    IF padded /\ kind = EndColumn THEN kind[2] \o " " ELSE kind[2]

\* the text of a file of two header rows and the given data rows
CsvText(label, kinds, padded, records) ==
    <<  <<label[1]>> \o [c \in 1..Len(kinds) |-> kinds[c][1]],
        <<label[2]>> \o [c \in 1..Len(kinds) |-> SecondCell(kinds[c], padded)] >>
    \o [r \in 1..Len(records) |->
           <<records[r][1]>> \o [c \in 1..Len(kinds) |-> records[r][2]]]

\* files process_csv_file cannot finish: an empty file, files of one row
ShortFiles ==
    {EmptyFile,
     << <<"2014-2015 Financial Year">> >>,
     << <<"2014-2015 Financial Year", "Stroke">> >>}

CsvTexts ==
    ShortFiles \cup
    {CsvText(label, kinds, padded, records) :
        label \in Labels,
        kinds \in {k \in DistinctSeqs(ColumnKinds, MaxMetricColumns) :
                      Len(k) > 0},
        padded \in BOOLEAN,
        records \in SeqsUpTo(RecordKinds, MaxRecords)}
    \cup
    {CsvText(label, <<>>, FALSE, records) :
        label \in Labels \ {<<"", "">>},
        records \in SeqsUpTo(RecordKinds, MaxRecords)}

InitNormalizer ==
    /\ BatchIdle
    /\ ExtractorIdle
    /\ FunctionsIdle
    /\ PipelineIdle
    /\ SplitIdle
    /\ YearIdle
    /\ npc = "read"
    /\ csv_file \in {Present(text) : text \in CsvTexts}
    /\ csv_df = <<>>

\* what an action of process_csv_file leaves alone
CsvFrame == UNCHANGED <<csv_file, xvars, fvars, pvars, svars, yvars, rvars, tvars>>

CsvRead ==
    /\ npc = "read"
    /\ ~ReadFails(csv_file.content)
    /\ csv_df' = read_csv(csv_file.content).rows
    /\ npc' = "step1"
    /\ CsvFrame

\* pd.read_csv raises: caught in process_all_csv_files, nothing is written
CsvReadError ==
    /\ npc = "read"
    /\ ReadFails(csv_file.content)
    /\ npc' = "error"
    /\ UNCHANGED csv_df
    /\ CsvFrame

CsvStep1 ==
    /\ npc = "step1"
    /\ csv_df' = UnderscoreHeader(csv_df)
    /\ npc' = "step2"
    /\ CsvFrame

\* df.iloc[1, ...] of a frame of one row raises IndexError: in Step 2 when
\* there is a second column, else in Step 2.5
CsvIndexError ==
    /\ \/ npc = "step2" /\ Len(csv_df[1]) > 1 /\ Len(csv_df) < 2
       \/ npc = "step2_5" /\ Len(csv_df) < 2
    /\ npc' = "error"
    /\ UNCHANGED csv_df
    /\ CsvFrame

CsvStep2 ==
    /\ npc = "step2"
    /\ Len(csv_df[1]) = 1 \/ Len(csv_df) >= 2
    /\ csv_df' = IF Len(csv_df[1]) = 1 THEN csv_df ELSE FlattenHeader(csv_df)
    /\ npc' = "step2_5"
    /\ CsvFrame

CsvStep2_5 ==
    /\ npc = "step2_5"
    /\ Len(csv_df) >= 2
    /\ csv_df' = InsertRegime(csv_df)
    /\ npc' = "step3"
    /\ CsvFrame

CsvStep3 ==
    /\ npc = "step3"
    /\ csv_df' = InsertYear(csv_df)
    /\ npc' = "step4"
    /\ CsvFrame

CsvStep4 ==
    /\ npc = "step4"
    /\ csv_df' = SetCell(csv_df, 1, 1, "FinancialYear")
    /\ npc' = "step5"
    /\ CsvFrame

CsvStep5 ==
    /\ npc = "step5"
    /\ csv_df' = DropSecondRow(csv_df)
    /\ npc' = "step6"
    /\ CsvFrame

CsvStep6 ==
    /\ npc = "step6"
    /\ csv_df' = TruncateColumns(csv_df)
    /\ npc' = "step7"
    /\ CsvFrame

CsvStep7 ==
    /\ npc = "step7"
    /\ csv_df' = OrganisationHeader(csv_df)
    /\ npc' = "step8"
    /\ CsvFrame

CsvStep8 ==
    /\ npc = "step8"
    /\ csv_df' = StandardizeYears(csv_df)
    /\ npc' = "step9"
    /\ CsvFrame

CsvStep9 ==
    /\ npc = "step9"
    /\ csv_df' = process_total_count_rows(csv_df)
    /\ npc' = "returned"
    /\ CsvFrame

\* process_all_csv_files: processed_df.to_csv(output_file, ...) over the input
CsvSave ==
    /\ npc = "returned"
    /\ csv_file' = Present(to_csv([ncols |-> Len(csv_df[1]), rows |-> csv_df]))
    /\ npc' = "saved"
    /\ UNCHANGED <<csv_df, xvars, fvars, pvars, svars, yvars, rvars, tvars>>

NextNormalizer ==
    \/ CsvRead
    \/ CsvReadError
    \/ CsvStep1
    \/ CsvIndexError
    \/ CsvStep2
    \/ CsvStep2_5
    \/ CsvStep3
    \/ CsvStep4
    \/ CsvStep5
    \/ CsvStep6
    \/ CsvStep7
    \/ CsvStep8
    \/ CsvStep9
    \/ CsvSave

SpecNormalizer == InitNormalizer /\ [][NextNormalizer]_vars

(***************************************************************************)
(* Extractor, Steps 3 to 5 of process_abi_data and split_by_blank_rows     *)
(***************************************************************************)
\* Step 3 on one row, columns c.. : a cell "Rate" takes the text of the
\* cell to its left (as rewritten so far) in front
RECURSIVE RateRowFrom(_, _, _)
RateRowFrom(orig, proc, c) ==
    IF c > Len(orig) THEN proc
    ELSE LET cell == orig[c]
             next == IF /\ notna(cell) /\ Strip(cell) = "Rate"
                        /\ c > 1 /\ notna(proc[c - 1])
                     THEN [t \in 1..Len(proc) |->
                              IF t = c THEN proc[c - 1] \o "_Rate" ELSE proc[t]]
                     ELSE proc
         IN  RateRowFrom(orig, next, c + 1)

\* Step 3 as it would read the left neighbour from the row as it was: a
\* "Rate" right of a "Rate" takes "Rate" in front
RECURSIVE RateRowOriginal(_, _)
RateRowOriginal(row, c) ==
    IF c > Len(row) THEN row
    ELSE LET rest == RateRowOriginal(row, c + 1)
         IN  IF notna(row[c]) /\ Strip(row[c]) = "Rate"
                /\ c > 1 /\ notna(row[c - 1])
             THEN [t \in 1..Len(row) |->
                      IF t = c THEN row[c - 1] \o "_Rate" ELSE rest[t]]
             ELSE rest

RateFromOriginal(df) == [r \in 1..Len(df) |-> RateRowOriginal(df[r], 1)]

ConcatenateRate(df) == [r \in 1..Len(df) |-> RateRowFrom(df[r], df[r], 1)]

\* Step 4 on one cell
count_terms == {"Female", "Male", "Total"}

AddCount(cell) ==
    IF notna(cell) /\ Strip(cell) \in count_terms
    THEN Strip(cell) \o "_Count"
    ELSE cell

AddCountSuffix(df) ==
    [r \in 1..Len(df) |-> [c \in 1..Len(df[r]) |-> AddCount(df[r][c])]]

\* split_by_blank_rows: all cells of the row are NaN or blank
is_blank_row(row) ==
    \A c \in 1..Len(row) : ~(notna(row[c]) /\ Strip(row[c]) # "")

\* a dict of tables, in insertion order: a sequence of [name, rows] with
\* distinct names
Names(dict) == {dict[k].name : k \in 1..Len(dict)}

\* split_dfs[name] = rows
DictSet(dict, name, rows) ==
    IF name \in Names(dict)
    THEN [k \in 1..Len(dict) |->
             IF dict[k].name = name THEN [name |-> name, rows |-> rows]
             ELSE dict[k]]
    ELSE Append(dict, [name |-> name, rows |-> rows])

\* the name given to a table at its first row
TableName(row, split_dfs) ==
    IF Len(row) > 0 /\ notna(row[1]) /\ Strip(row[1]) # ""
    THEN Strip(row[1])
    ELSE "Table_" \o str(Len(split_dfs) + 1)

\* the loop of split_by_blank_rows from row i on, and the save after it;
\* current_table_name is None while current_table is empty
RECURSIVE SplitFrom(_, _, _, _, _)
SplitFrom(df, i, split_dfs, current_table, current_table_name) ==
    IF i > Len(df)
    THEN IF current_table # <<>>
         THEN DictSet(split_dfs, current_table_name, current_table)
         ELSE split_dfs
    ELSE IF is_blank_row(df[i])
    THEN SplitFrom(df, i + 1,
                   IF current_table # <<>>
                   THEN DictSet(split_dfs, current_table_name, current_table)
                   ELSE split_dfs,
                   <<>>, None)
    ELSE SplitFrom(df, i + 1, split_dfs,
                   Append(current_table, df[i]),
                   IF current_table_name = None
                   THEN TableName(df[i], split_dfs)
                   ELSE current_table_name)

split_by_blank_rows(df) == SplitFrom(df, 1, <<>>, <<>>, None)

\* \w of the regular expressions, over the characters of the texts explored
WordChars ==
    LET alphabet ==
            "abcdefghijklmnopqrstuvwxyzABCDEFGHIJKLMNOPQRSTUVWXYZ0123456789_"
    IN  {CharAt(alphabet, i) : i \in 1..Len(alphabet)}

\* re.sub(r'[^\w\s-]', '', name)
RECURSIVE RemoveOtherChars(_)
RemoveOtherChars(s) ==
    IF Len(s) = 0 THEN ""
    ELSE (IF CharAt(s, 1) \in WordChars \cup Whitespace \cup {"-"}
          THEN CharAt(s, 1) ELSE "")
             \o RemoveOtherChars(SubSeq(s, 2, Len(s)))

\* re.sub(r'[-\s]+', '_', name)
RECURSIVE JoinSeparators(_, _)
JoinSeparators(s, in_run) ==
    IF Len(s) = 0 THEN ""
    ELSE IF CharAt(s, 1) \in Whitespace \cup {"-"}
    THEN (IF in_run THEN "" ELSE "_")
             \o JoinSeparators(SubSeq(s, 2, Len(s)), TRUE)
    ELSE CharAt(s, 1) \o JoinSeparators(SubSeq(s, 2, Len(s)), FALSE)

\* the cleaning that turns a sheet name or a table name into a file name
CleanName(name) == JoinSeparators(Strip(RemoveOtherChars(name)), FALSE)

\* the file name of item i (counted from 1) of split_dataframes
SplitFileName(dict, i) ==
    IF CleanName(dict[i].name) # "" THEN CleanName(dict[i].name)
    ELSE "table_" \o str(i)

\* a frame written by to_csv(index=False, header=False)
CsvOf(rows) == [r \in 1..Len(rows) |-> [c \in 1..Len(rows[r]) |-> WriteCell(rows[r][c])]]

\* (a Step 5 that writes no main file)
NoMainFile(name, df) == <<>>

\* the main processed file, in a subfolder with no file yet
MainFile(name, df) == name :> CsvOf(df)

\* the split files written from item i on, over the files in the subfolder
RECURSIVE SaveSplitsFrom(_, _, _)
SaveSplitsFrom(files, dict, i) ==
    IF i > Len(dict) THEN files
    ELSE SaveSplitsFrom((SplitFileName(dict, i) :> CsvOf(dict[i].rows)) @@ files,
                        dict, i + 1)

(***************************************************************************)
(* The Extractor's run on a sheet of several rows, through Step 5          *)
(***************************************************************************)
\* rows of the sheets explored: blank rows, rows that begin a table with
\* or without a text in their first cell
SheetRows ==
    {<<NaN, NaN>>, <<" ", NaN>>, <<NaN, "x">>, <<"A B", NaN>>,
     <<"A-B", "x">>, <<"Table_1", NaN>>, <<"Total", "Rate">>}

SplitSheets == SeqsUpTo(SheetRows, MaxSheetRows)

\* names of the second sheet
SheetNames == {"North East", "A-B"}

InitSplit ==
    /\ BatchIdle
    /\ FunctionsIdle
    /\ PipelineIdle
    /\ NormalizerIdle
    /\ YearIdle
    /\ xpc = "step1"
    /\ processed_df \in SplitSheets
    /\ original_df = <<>>
    /\ clean_sheet_name \in {CleanName(name) : name \in SheetNames}
    /\ split_dataframes = <<>>
    /\ output_subfolder = <<>>

Step3 ==
    /\ xpc = "step3"
    /\ processed_df' = ConcatenateRate(processed_df)
    /\ xpc' = "step4"
    /\ UNCHANGED <<original_df, svars, fvars, pvars, nvars, yvars, rvars, tvars>>

Step4 ==
    /\ xpc = "step4"
    /\ processed_df' = AddCountSuffix(processed_df)
    /\ xpc' = "step5"
    /\ UNCHANGED <<original_df, svars, fvars, pvars, nvars, yvars, rvars, tvars>>

\* Step 5: the sheet is split, the main file and the split files are saved
Step5 ==
    /\ xpc = "step5"
    /\ split_dataframes' = split_by_blank_rows(processed_df)
    /\ output_subfolder' =
           SaveSplitsFrom(MainFile(clean_sheet_name, processed_df),
                          split_by_blank_rows(processed_df), 1)
    /\ xpc' = "done"
    /\ UNCHANGED <<original_df, processed_df, clean_sheet_name,
                   fvars, pvars, nvars, yvars, rvars, tvars>>

NextSplit == Step1 \/ Step2 \/ Step3 \/ Step4 \/ Step5

SpecSplit == InitSplit /\ [][NextSplit]_vars

(***************************************************************************)
(* The Extractor's run on sheets that hold "Rate" cells                    *)
(***************************************************************************)
RateWidth == 3      \* columns of the sheets Steps 3 and 4 are explored on

\* a missing cell, the text "Rate" with and without a blank in front, a
\* count term with and without a blank in front, and another text
RateCells == {NaN, "Rate", " Rate", "Female", " Total", "x"}

RateSheets == {<<row>> : row \in [1..RateWidth -> RateCells]}

InitRate ==
    /\ BatchIdle
    /\ FunctionsIdle
    /\ PipelineIdle
    /\ NormalizerIdle
    /\ YearIdle
    /\ xpc = "step1"
    /\ processed_df \in RateSheets
    /\ original_df = <<>>
    /\ clean_sheet_name = CleanName("North East")
    /\ split_dataframes = <<>>
    /\ output_subfolder = <<>>

SpecRate == InitRate /\ [][NextSplit]_vars

(***************************************************************************)
(* The Extractor's batch: process_all_excel_files                          *)
(***************************************************************************)
MaxWorkbooks == 3   \* workbooks in input_dir

\* the frame process_abi_data saves: the second sheet after Steps 1 to 4
ProcessedSheet(df) ==
    AddCountSuffix(ConcatenateRate(CopyCategories(ReplaceOtherDisorders(df))))

\* Step 5 in a subfolder that holds `files` already (mkdir(exist_ok=True))
SavedFiles(name, df, files) ==
    SaveSplitsFrom(MainFile(name, df) @@ files, split_by_blank_rows(df), 1)

\* a workbook: whether pd.ExcelFile can open it, the names of its sheets,
\* and its second sheet as read with skiprows=6
Unreadable == [opens |-> FALSE, sheet_names |-> <<>>, sheet |-> <<>>]
OneSheet == [opens |-> TRUE, sheet_names |-> <<"Notes">>, sheet |-> <<>>]

BatchSheets ==
    { << <<"A B", NaN>> >>,
      << <<"Total", "Rate">>, <<NaN, NaN>>, <<NaN, "x">> >> }

Workbooks ==
    {Unreadable, OneSheet}
    \cup {[opens |-> TRUE, sheet_names |-> <<"Notes", name>>, sheet |-> df] :
             name \in SheetNames, df \in BatchSheets}

\* process_abi_data raises: pd.ExcelFile does, or the ValueError of a
\* workbook with fewer than two sheets
AbiDataRaises(workbook) ==
    ~workbook.opens \/ Len(workbook.sheet_names) < 2

\* (a process_abi_data that makes the subfolder before it looks at the sheets)
SubfolderMade(folders, workbook) == ("Notes" :> <<>>) @@ folders

\* the subfolders of output_dir after process_abi_data raised: it raises
\* before output_subfolder.mkdir
AfterRaise(folders, workbook) == folders

\* (a loop that an exception ends: the remaining workbooks are not opened)
BatchAbandoned(i, n) == n + 1

\* the loop after the `except` of a workbook: the next workbook
AfterWorkbookError(i, n) == i + 1

\* the subfolders of output_dir after process_abi_data returned
AfterAbiData(folders, workbook) ==
    LET name == CleanName(workbook.sheet_names[2])
        held == IF name \in DOMAIN folders THEN folders[name] ELSE <<>>
    IN  (name :> SavedFiles(name, ProcessedSheet(workbook.sheet), held))
            @@ folders

InitExcelBatch ==
    /\ ExtractorIdle
    /\ SplitIdle
    /\ FunctionsIdle
    /\ PipelineIdle
    /\ NormalizerIdle
    /\ YearIdle
    /\ LogIdle
    /\ CsvBatchIdle
    /\ DashboardIdle
    /\ epc = "start"
    /\ \/ input_exists = FALSE /\ excel_files = <<>>
       \/ input_exists = TRUE /\ excel_files \in SeqsUpTo(Workbooks, MaxWorkbooks)
    /\ excel_file = 0
    /\ output_path = [exists |-> FALSE, folders |-> <<>>]

\* what an action of process_all_excel_files leaves alone
ExcelFrame ==
    UNCHANGED <<input_exists, excel_files, runs, last_listing, xvars, fvars,
                pvars, svars,
                nvars, yvars, bvars, dvars>>

\* output_path.mkdir(exist_ok=True); `if not input_path.exists(): return`
ExcelInputMissing ==
    /\ epc = "start"
    /\ ~input_exists
    /\ output_path' = [output_path EXCEPT !.exists = TRUE]
    /\ epc' = "done"
    /\ UNCHANGED <<excel_file, events, processed_count, failed>>
    /\ ExcelFrame

\* `if not excel_files: return`
ExcelNoFiles ==
    /\ epc = "start"
    /\ input_exists
    /\ excel_files = <<>>
    /\ output_path' = [output_path EXCEPT !.exists = TRUE]
    /\ epc' = "done"
    /\ UNCHANGED <<excel_file, events, processed_count, failed>>
    /\ ExcelFrame

\* the list of workbooks is made and the loop entered
ExcelListFiles ==
    /\ epc = "start"
    /\ input_exists
    /\ excel_files # <<>>
    /\ output_path' = [output_path EXCEPT !.exists = TRUE]
    /\ excel_file' = 1
    /\ processed_count' = 0
    /\ epc' = "loop"
    /\ UNCHANGED <<events, failed>>
    /\ ExcelFrame

\* one turn of the loop: process_abi_data raises, the error is printed
WorkbookError ==
    /\ epc = "loop"
    /\ excel_file <= Len(excel_files)
    /\ AbiDataRaises(excel_files[excel_file])
    /\ output_path' =
           [output_path EXCEPT
               !.folders = AfterRaise(@, excel_files[excel_file])]
    /\ failed' = failed \cup {excel_file}
    /\ events' = events \o << <<"read", excel_file>>, <<"error", excel_file>> >>
    /\ excel_file' = AfterWorkbookError(excel_file, Len(excel_files))
    /\ UNCHANGED <<epc, processed_count>>
    /\ ExcelFrame

\* one turn of the loop: process_abi_data opens the workbook for its sheet
\* names, reads the second sheet, rewrites it and saves the files
WorkbookProcessed ==
    /\ epc = "loop"
    /\ excel_file <= Len(excel_files)
    /\ ~AbiDataRaises(excel_files[excel_file])
    /\ output_path' =
           [output_path EXCEPT
               !.folders = AfterAbiData(@, excel_files[excel_file])]
    /\ processed_count' = processed_count + 1
    /\ events' = events \o << <<"read", excel_file>>, <<"read", excel_file>>,
                              <<"transformed", excel_file>>,
                              <<"written", excel_file>> >>
    /\ excel_file' = excel_file + 1
    /\ UNCHANGED <<epc, failed>>
    /\ ExcelFrame

\* the loop is over, the summary is printed
ExcelDone ==
    /\ epc = "loop"
    /\ excel_file > Len(excel_files)
    /\ epc' = "done"
    /\ UNCHANGED <<excel_file, output_path, events, processed_count, failed>>
    /\ ExcelFrame

NextExcelBatch ==
    \/ ExcelInputMissing
    \/ ExcelNoFiles
    \/ ExcelListFiles
    \/ WorkbookError
    \/ WorkbookProcessed
    \/ ExcelDone

SpecExcelBatch == InitExcelBatch /\ [][NextExcelBatch]_vars

(***************************************************************************)
(* The Normalizer's batch: process_all_csv_files                           *)
(***************************************************************************)

\* process_csv_file on the frame pd.read_csv returned, when it does not
\* raise: Steps 1 to 9, each applied to the frame the step before it left
process_csv_file(df) ==
    CHOOSE step9 \in
        {process_total_count_rows(step8) : step8 \in
        {StandardizeYears(step7) : step7 \in
        {OrganisationHeader(step6) : step6 \in
        {TruncateColumns(step5) : step5 \in
        {DropSecondRow(step4) : step4 \in
        {SetCell(step3, 1, 1, "FinancialYear") : step3 \in
        {InsertYear(step2_5) : step2_5 \in
        {InsertRegime(step2) : step2 \in
        {IF Len(step1[1]) = 1 THEN step1 ELSE FlattenHeader(step1) : step1 \in
        {UnderscoreHeader(df)}}}}}}}}}} : TRUE

\* process_csv_file raises: pd.read_csv does, or df.iloc[1, ...] does on a
\* frame of one row
CsvFileRaises(content) == ReadFails(content) \/ Len(content) < 2

\* the file as to_csv leaves it
CsvWritten(content) ==
    CHOOSE file \in
        {Present(to_csv([ncols |-> Len(df[1]), rows |-> df])) : df \in
        {process_csv_file(frame.rows) : frame \in {read_csv(content)}}} : TRUE

\* (a loop that an exception ends: the remaining files are not processed)
LoopAbandoned(i, n) == n + 1

\* the inner loop after the `except` of a file: the next file
AfterError(i, n) == i + 1

\* the files of the subfolders before the Normalizer has run: numeric-named
\* files that are empty, of one row, of two rows of one column, or of the
\* two header rows and a data row; the Extractor's dump of the whole sheet
BatchNames(d) == IF d = "North" THEN {"2", "10"} ELSE {"1"}

RawLabel == <<"2014-2015 Financial Year", "NHS England">>

RawFiles(tag) ==
    {EmptyFile,
     << <<"2014-2015 Financial Year", "Stroke">> >>,
     CsvText(RawLabel, <<>>, FALSE, <<>>),
     CsvText(RawLabel, <<StartColumn>>, FALSE, << <<"Leeds", tag>> >>)}

RawFilesAt(d, n) ==
    IF n = d
    THEN {Present(CsvText(RawLabel, <<StartColumn>>, FALSE,
                          << <<"Total_Count", TagOf(d, n)>> >>))}
         \cup (IF d = "South" THEN {Absent} ELSE {})
    ELSE IF n \in BatchNames(d)
    THEN {Absent} \cup {Present(f) : f \in RawFiles(TagOf(d, n))}
    ELSE {Absent}

RECURSIVE RawFoldersOver(_, _)
RawFoldersOver(d, names) ==
    IF names = {} THEN {<<>>}
    ELSE LET n == CHOOSE m \in names : TRUE
         IN  {(n :> x) @@ f :
                 x \in RawFilesAt(d, n), f \in RawFoldersOver(d, names \ {n})}

RawDisks ==
    {[d \in Regions |-> IF d = "North" THEN a ELSE b] :
        a \in RawFoldersOver("North", NamesIn("North")),
        b \in RawFoldersOver("South", NamesIn("South"))}

\* the files that may be read-only
ReadOnlySets == {{}, {<<"North", "2">>}, {<<"South", "1">>}}

InitCsvBatch ==
    /\ ExtractorIdle
    /\ SplitIdle
    /\ FunctionsIdle
    /\ NormalizerIdle
    /\ YearIdle
    /\ LogIdle
    /\ ExcelBatchIdle
    /\ DashboardIdle
    /\ ppc = "idle"
    /\ \/ base_exists = FALSE /\ dirs = {} /\ disk = NoDisk /\ read_only = {}
       \/ base_exists = TRUE /\ dirs = {} /\ disk = NoDisk /\ read_only = {}
       \/ base_exists = TRUE /\ dirs = Regions /\ disk \in RawDisks
          /\ read_only \in ReadOnlySets
    /\ england = Absent
    /\ subfolders = <<>>
    /\ idx = 0
    /\ regional_files = <<>>
    /\ warnings = {}
    /\ bpc = "start"
    /\ csv_list = <<>>
    /\ file_idx = 0
    /\ total_files_processed = 0

\* what an action of process_all_csv_files leaves alone
CsvBatchFrame ==
    UNCHANGED <<ppc, base_exists, dirs, england, regional_files, warnings,
                read_only, runs, last_listing, xvars, fvars, svars, nvars,
                yvars, evars,
                dvars>>

\* `if not input_path.exists(): return`
CsvBaseMissing ==
    /\ bpc = "start"
    /\ ~base_exists
    /\ bpc' = "done"
    /\ UNCHANGED <<disk, subfolders, idx, csv_list, file_idx,
                   total_files_processed, events, processed_count, failed>>
    /\ CsvBatchFrame

\* `if not subfolders: return`
CsvNoSubfolders ==
    /\ bpc = "start"
    /\ base_exists
    /\ dirs = {}
    /\ bpc' = "done"
    /\ UNCHANGED <<disk, subfolders, idx, csv_list, file_idx,
                   total_files_processed, events, processed_count, failed>>
    /\ CsvBatchFrame

\* subfolders = [f for f in input_path.iterdir() if f.is_dir()]
CsvListSubfolders ==
    /\ bpc = "start"
    /\ base_exists
    /\ dirs # {}
    /\ subfolders' \in Orders(dirs)
    /\ idx' = 1
    /\ processed_count' = 0
    /\ total_files_processed' = 0
    /\ bpc' = "loop"
    /\ UNCHANGED <<disk, csv_list, file_idx, events, failed>>
    /\ CsvBatchFrame

\* one turn of the outer loop: no CSV file in the subfolder, `continue`
CsvNoFiles ==
    /\ bpc = "loop"
    /\ idx <= Len(subfolders)
    /\ glob_csv(disk[subfolders[idx]]) = {}
    /\ idx' = idx + 1
    /\ UNCHANGED <<bpc, disk, subfolders, csv_list, file_idx,
                   total_files_processed, events, processed_count, failed>>
    /\ CsvBatchFrame

\* csv_files = list(subfolder.glob("*.csv")), in the order glob gives
CsvListFiles ==
    /\ bpc = "loop"
    /\ idx <= Len(subfolders)
    /\ glob_csv(disk[subfolders[idx]]) # {}
    /\ csv_list' \in Orders(glob_csv(disk[subfolders[idx]]))
    /\ file_idx' = 1
    /\ bpc' = "files"
    /\ UNCHANGED <<disk, subfolders, idx, total_files_processed, events,
                   processed_count, failed>>
    /\ CsvBatchFrame

\* one turn of the inner loop: process_csv_file returns and to_csv writes
\* the frame over the input file
CsvFileSaved ==
    /\ bpc = "files"
    /\ file_idx <= Len(csv_list)
    /\ LET d == subfolders[idx]
           n == csv_list[file_idx]
       IN  /\ ~CsvFileRaises(disk[d][n].content)
           /\ <<d, n>> \notin read_only
           /\ disk' = [disk EXCEPT ![d][n] = CsvWritten(disk[d][n].content)]
           /\ events' = events \o << <<"read", <<d, n>>>>,
                                     <<"transformed", <<d, n>>>>,
                                     <<"written", <<d, n>>>> >>
    /\ total_files_processed' = total_files_processed + 1
    /\ file_idx' = file_idx + 1
    /\ UNCHANGED <<bpc, subfolders, idx, csv_list, processed_count, failed>>
    /\ CsvBatchFrame

\* one turn of the inner loop: process_csv_file raises, or to_csv cannot
\* open the file for writing; the error is printed
CsvFileError ==
    /\ bpc = "files"
    /\ file_idx <= Len(csv_list)
    /\ LET d == subfolders[idx]
           n == csv_list[file_idx]
       IN  /\ CsvFileRaises(disk[d][n].content) \/ <<d, n>> \in read_only
           /\ failed' = failed \cup {<<d, n>>}
           /\ events' =
                  events \o
                  (IF CsvFileRaises(disk[d][n].content)
                   THEN << <<"read", <<d, n>>>>, <<"error", <<d, n>>>> >>
                   ELSE << <<"read", <<d, n>>>>, <<"transformed", <<d, n>>>>,
                           <<"error", <<d, n>>>> >>)
    /\ file_idx' = AfterError(file_idx, Len(csv_list))
    /\ UNCHANGED <<bpc, disk, subfolders, idx, csv_list,
                   total_files_processed, processed_count>>
    /\ CsvBatchFrame

\* the inner loop is over: processed_count += 1
CsvSubfolderDone ==
    /\ bpc = "files"
    /\ file_idx > Len(csv_list)
    /\ processed_count' = processed_count + 1
    /\ idx' = idx + 1
    /\ bpc' = "loop"
    /\ UNCHANGED <<disk, subfolders, csv_list, file_idx,
                   total_files_processed, events, failed>>
    /\ CsvBatchFrame

\* the outer loop is over, the summary is printed
CsvDone ==
    /\ bpc = "loop"
    /\ idx > Len(subfolders)
    /\ bpc' = "done"
    /\ UNCHANGED <<disk, subfolders, idx, csv_list, file_idx,
                   total_files_processed, events, processed_count, failed>>
    /\ CsvBatchFrame

\* csv_processor.py is started again over the same folders
RunProcessorAgain ==
    /\ bpc = "done"
    /\ ppc = "idle"
    /\ runs < MaxRuns
    /\ runs' = runs + 1
    /\ bpc' = "start"
    /\ subfolders' = <<>>
    /\ idx' = 0
    /\ csv_list' = <<>>
    /\ file_idx' = 0
    /\ total_files_processed' = 0
    /\ processed_count' = 0
    /\ events' = <<>>
    /\ failed' = {}
    /\ UNCHANGED <<ppc, base_exists, dirs, disk, england, regional_files,
                   warnings, read_only, last_listing, xvars, fvars, svars,
                   nvars, yvars, evars, dvars>>

NextCsvBatch ==
    \/ CsvBaseMissing
    \/ CsvNoSubfolders
    \/ CsvListSubfolders
    \/ CsvNoFiles
    \/ CsvListFiles
    \/ CsvFileSaved
    \/ CsvFileError
    \/ CsvSubfolderDone
    \/ CsvDone
    \/ RunProcessorAgain

SpecCsvBatch == InitCsvBatch /\ [][NextCsvBatch]_vars

(***************************************************************************)
(* The stages run one after the other: the Extractor's batch, or the       *)
(* Normalizer's batch followed by the Concatenator over the same folders   *)
(***************************************************************************)
\* csv_combiner.py is started after csv_processor.py has ended
RunCombiner ==
    /\ bpc = "done"
    /\ ppc = "idle"
    /\ ppc' = "start"
    /\ bpc' = "idle"
    /\ subfolders' = <<>>
    /\ idx' = 0
    /\ csv_list' = <<>>
    /\ file_idx' = 0
    /\ total_files_processed' = 0
    /\ processed_count' = 0
    /\ events' = <<>>
    /\ UNCHANGED <<base_exists, dirs, disk, england, regional_files, warnings,
                   read_only, runs, last_listing, failed, xvars, fvars, svars,
                   nvars, yvars,
                   evars, dvars>>

InitStages == InitExcelBatch \/ InitCsvBatch

\* the steps the code takes once an entry point has been started
StageSteps ==
    \/ ExcelInputMissing
    \/ ExcelNoFiles
    \/ ExcelListFiles
    \/ WorkbookError
    \/ WorkbookProcessed
    \/ ExcelDone
    \/ CsvBaseMissing
    \/ CsvNoSubfolders
    \/ CsvListSubfolders
    \/ CsvNoFiles
    \/ CsvListFiles
    \/ CsvFileSaved
    \/ CsvFileError
    \/ CsvSubfolderDone
    \/ CsvDone
    \/ BaseMissing
    \/ NoSubfolders
    \/ ListSubfolders
    \/ SkipSubfolder
    \/ ProcessSubfolder
    \/ CombineRegional
    \/ NoRegionalFiles

NextStages == StageSteps \/ RunProcessorAgain \/ RunCombiner

SpecStages == InitStages /\ [][NextStages]_vars

\* where the entry point that is running has got to
position == <<epc, excel_file, bpc, file_idx, ppc, idx>>

\* an entry point has been started and its last statement is not reached
Running ==
    \/ epc \in {"start", "loop"}
    \/ bpc \in {"start", "loop", "files"}
    \/ ppc \in {"start", "loop"}

Stations == {"idle", "start", "loop", "files", "done"}

\* the interpreter executes the next statement of the entry point: one of
\* StageSteps, seen on the position alone
NextStatement ==
    /\ Running
    /\ epc' \in Stations
    /\ excel_file' \in 0..(MaxWorkbooks + 1)
    /\ bpc' \in Stations
    /\ file_idx' \in 0..(Cardinality(NamesIn("North")) + 1)
    /\ ppc' \in Stations
    /\ idx' \in 0..(Cardinality(Regions) + 1)

\* every entry point is a sequential program: once started it goes on to
\* its next statement as long as it has one
FairStages == InitStages /\ [][NextStages]_vars /\ WF_position(NextStatement)

(***************************************************************************)
(* dashboard.py: load_data behind st.cache_data, and the file it reads     *)
(***************************************************************************)
MaxClock == 3
MaxVersions == 3

\* (a cache that keeps one entry and returns it whatever the key)
LookupAnyKey(entries, key) ==
    IF entries # <<>>
    THEN [hit |-> TRUE, value |-> entries[CHOOSE k \in DOMAIN entries : TRUE]]
    ELSE [hit |-> FALSE, value |-> 0]

\* st.cache_data: the entry stored under the arguments of the call, if any
Lookup(entries, key) ==
    IF key \in DOMAIN entries
    THEN [hit |-> TRUE, value |-> entries[key]]
    ELSE [hit |-> FALSE, value |-> 0]

InitDashboard ==
    /\ ExtractorIdle
    /\ SplitIdle
    /\ FunctionsIdle
    /\ PipelineIdle
    /\ NormalizerIdle
    /\ YearIdle
    /\ LogIdle
    /\ ExcelBatchIdle
    /\ CsvBatchIdle
    /\ dpc = "idle"
    /\ clock = 1
    /\ mtime = 0
    /\ version = 0
    /\ cache = <<>>
    /\ cache_key = 0
    /\ shown = 0
    /\ file_reads = 0
    /\ stamps = <<>>
    /\ stat_version = 0

DashboardFrame ==
    UNCHANGED <<xvars, fvars, pvars, svars, nvars, yvars, rvars, evars, bvars>>

\* time passes: the next write gets a later modification time
Tick ==
    /\ clock < MaxClock
    /\ clock' = clock + 1
    /\ UNCHANGED <<dpc, mtime, version, cache, cache_key, shown, file_reads,
                   stamps, stat_version>>
    /\ DashboardFrame

\* the Concatenator writes England.csv: new content, stamped with the clock
WriteEngland ==
    /\ version < MaxVersions
    /\ version' = version + 1
    /\ mtime' = clock
    /\ stamps' = Append(stamps, clock)
    /\ UNCHANGED <<dpc, clock, cache, cache_key, shown, file_reads,
                   stat_version>>
    /\ DashboardFrame

\* cache_key = os.path.getmtime(...) if os.path.exists(...) else 0
ComputeKey ==
    /\ dpc = "idle"
    /\ cache_key' = IF version > 0 THEN mtime ELSE 0
    /\ stat_version' = version
    /\ dpc' = "keyed"
    /\ UNCHANGED <<clock, mtime, version, cache, shown, file_reads, stamps>>
    /\ DashboardFrame

\* load_data(cache_key) with an entry under cache_key: the body is not run
LoadHit ==
    /\ dpc = "keyed"
    /\ Lookup(cache, cache_key).hit
    /\ shown' = Lookup(cache, cache_key).value
    /\ dpc' = "idle"
    /\ UNCHANGED <<clock, mtime, version, cache, cache_key, file_reads,
                   stamps, stat_version>>
    /\ DashboardFrame

\* load_data(cache_key) with no entry: the file is read and the frame stored
LoadMiss ==
    /\ dpc = "keyed"
    /\ ~Lookup(cache, cache_key).hit
    /\ version > 0
    /\ file_reads' = file_reads + 1
    /\ shown' = version
    /\ cache' = (cache_key :> version) @@ cache
    /\ dpc' = "idle"
    /\ UNCHANGED <<clock, mtime, version, cache_key, stamps, stat_version>>
    /\ DashboardFrame

\* load_data(cache_key) with no entry and no file: st.error, st.stop
LoadStop ==
    /\ dpc = "keyed"
    /\ ~Lookup(cache, cache_key).hit
    /\ version = 0
    /\ shown' = 0
    /\ dpc' = "idle"
    /\ UNCHANGED <<clock, mtime, version, cache, cache_key, file_reads,
                   stamps, stat_version>>
    /\ DashboardFrame

NextDashboard ==
    \/ Tick
    \/ WriteEngland
    \/ ComputeKey
    \/ LoadHit
    \/ LoadMiss
    \/ LoadStop

SpecDashboard == InitDashboard /\ [][NextDashboard]_vars

(***************************************************************************)
(* A run of any one of the functions, taken alone                          *)
(***************************************************************************)
Init ==
    \/ InitExtractor
    \/ InitSplit
    \/ InitNormalizer
    \/ InitYear
    \/ InitFunctions
    \/ InitPipeline

Next ==
    \/ Step1
    \/ Step2
    \/ Step3
    \/ Step4
    \/ Step5
    \/ CsvRead
    \/ CsvReadError
    \/ CsvStep1
    \/ CsvIndexError
    \/ CsvStep2
    \/ CsvStep2_5
    \/ CsvStep3
    \/ CsvStep4
    \/ CsvStep5
    \/ CsvStep6
    \/ CsvStep7
    \/ CsvStep8
    \/ CsvStep9
    \/ CsvSave
    \/ Standardize
    \/ TestHeaders
    \/ Combine
    \/ BaseMissing
    \/ NoSubfolders
    \/ ListSubfolders
    \/ SkipSubfolder
    \/ ProcessSubfolder
    \/ CombineRegional
    \/ NoRegionalFiles

Spec == Init /\ [][Next]_vars

SpecExtractor == InitExtractor /\ [][NextExtractor]_vars

(***************************************************************************)
(* C1: category propagation is idempotent: once Step 2 has run, running it *)
(* again on its own result leaves the grid as it is.                       *)
(***************************************************************************)
C1_PropagationIdempotent ==
    xpc = "step3" => CopyCategories(processed_df) = processed_df

(***************************************************************************)
(* C2, as claimed: after Step 2, for every cell of original_df whose       *)
(* trimmed text is a category name, each of the next five cells of the row *)
(* (those that exist) holds that category's text.                          *)
(***************************************************************************)
C2_EveryCategoryPropagated ==
    xpc = "step3" =>
        \A r \in 1..Len(original_df) : \A c \in 1..Len(original_df[r]) :
            IsCategoryCell(original_df[r][c]) =>
                \A i \in 1..5 :
                    c + i <= Len(original_df[r]) =>
                        /\ notna(processed_df[r][c + i])
                        /\ Strip(processed_df[r][c + i]) = Strip(original_df[r][c])

\* no other category cell within five columns of column c, on either side
Isolated(row, c) ==
    \A d \in 1..Len(row) :
        (d # c /\ d - c <= 5 /\ c - d <= 5) => ~IsCategoryCell(row[d])

(***************************************************************************)
(* C2, amended: after Step 2, for every category cell of original_df that  *)
(* has no other category cell within five columns of it in its row, each   *)
(* of the next five cells of the row (those that exist) holds the cell's   *)
(* text as it stood in original_df.                                        *)
(***************************************************************************)
C2_IsolatedCategoryPropagated ==
    xpc = "step3" =>
        \A r \in 1..Len(original_df) : \A c \in 1..Len(original_df[r]) :
            (IsCategoryCell(original_df[r][c]) /\ Isolated(original_df[r], c)) =>
                \A i \in 1..5 :
                    c + i <= Len(original_df[r]) =>
                        processed_df[r][c + i] = original_df[r][c]

\* an isolated, padded category cell with five blank cells to its right has
\* been copied into all five
C2_Witness ==
    /\ xpc = "step3"
    /\ \E c \in 1..Len(original_df[1]) :
           /\ c + 5 <= Len(original_df[1])
           /\ original_df[1][c] = " Stroke"
           /\ Isolated(original_df[1], c)
           /\ \A i \in 1..5 : original_df[1][c + i] = NaN
           /\ \A i \in 1..5 : processed_df[1][c + i] = " Stroke"

(***************************************************************************)
(* Claims about the Concatenator's functions                               *)
(***************************************************************************)
\* every file of the list can be read: the list is a list of tables
AllReadable == \A i \in 1..Len(csv_files) : ~ReadFails(csv_files[i])

\* the table read from the file at position i
InputTable(i) == read_csv(csv_files[i]).rows

\* a row of the combined table without its Region cell, when there is one
Body(row) == IF Truthy(region_name) THEN Tail(row) ELSE row

RECURSIVE DataRowsUpTo(_)
DataRowsUpTo(i) == IF i = 0 THEN 0 ELSE DataRowsUpTo(i - 1) + Len(InputTable(i)) - 1

RECURSIVE RowsUpTo(_)
RowsUpTo(i) == IF i = 0 THEN 0 ELSE RowsUpTo(i - 1) + Len(InputTable(i))

\* where row j (j >= 2) of the file at position i belongs in the combined table
PlaceOf(i, j) == 1 + DataRowsUpTo(i - 1) + (j - 1)

WidestInput ==
    CHOOSE w \in {Len(InputTable(i)[1]) : i \in 1..Len(csv_files)} :
        \A i \in 1..Len(csv_files) : Len(InputTable(i)[1]) <= w

\* out is row `in` followed by missing cells up to w cells
IsPadded(out, in, w) ==
    /\ Len(out) = w
    /\ Len(in) <= w
    /\ \A c \in 1..w : out[c] = IF c <= Len(in) THEN in[c] ELSE NaN

C4_RegionColumn ==
    (fpc = "done" /\ Truthy(region_name) /\ ~combined.none
                     /\ Len(combined.rows) >= 1) =>
        /\ combined.rows[1][1] = "Region"
        /\ \A r \in 2..Len(combined.rows) : combined.rows[r][1] = region_name

\* the texts of row 0 of two files differ in length or in some cell
Row0Differs(a, b) == Len(a) # Len(b) \/ \E c \in 1..Len(a) : a[c] # b[c]

Flagged == {header_test.inconsistent_files[k] :
                k \in 1..Len(header_test.inconsistent_files)}

(***************************************************************************)
(* C6: test_header_consistency flags exactly the files whose row 0 differs *)
(* from the first file's row 0 in length or in a cell, and is_consistent   *)
(* is true exactly when no file is flagged (stated for lists of readable   *)
(* files).                                                                 *)
(***************************************************************************)
C6_FlagsExactlyDiffering ==
    (fpc \in {"combine", "done"} /\ Len(csv_files) >= 1 /\ AllReadable) =>
        /\ Flagged = {i \in 1..Len(csv_files) :
                         Row0Differs(csv_files[i][1], csv_files[1][1])}
        /\ header_test.is_consistent <=> (Flagged = {})

\* the files of the list that can be read
Remaining == SelectSeq(csv_files, LAMBDA f : ~ReadFails(f))

(***************************************************************************)
(* C7: a file that cannot be read is skipped, and the combined table is    *)
(* the one produced from the remaining files alone.                        *)
(***************************************************************************)
C7_FailedReadSkipped ==
    fpc = "done" => combined = combine_csv_files(Remaining, region_name)

(***************************************************************************)
(* Claims about process_all_subfolders                                     *)
(***************************************************************************)
\* the subfolders the loop has dealt with
Visited == {subfolders[k] : k \in 1..(idx - 1)}

\* the stems of the numeric files of subfolder d that can be read, in order
ReadableNumeric(d) ==
    SelectSeq(get_numeric_csv_files(disk[d]),
              LAMBDA n : ~ReadFails(disk[d][n].content))

\* two readable numeric files of d whose row 0 differ
HeaderMismatchIn(d) ==
    \E k1, k2 \in 1..Len(ReadableNumeric(d)) :
        Row0Differs(disk[d][ReadableNumeric(d)[k1]].content[1],
                    disk[d][ReadableNumeric(d)[k2]].content[1])

\* the file d/d.csv is the combined table this run wrote
RegionFileWritten(d) ==
    \E k \in 1..Len(regional_files) : regional_files[k] = d

\* row `out` begins with the cells of row `in`
BeginsWithRow(out, in) ==
    /\ Len(out) >= Len(in)
    /\ \A c \in 1..Len(in) : out[c] = in[c]

(***************************************************************************)
(* C5: a header mismatch among the numeric files of a subfolder does not   *)
(* stop the run: the combined file of the subfolder is written, and its    *)
(* row 0 is, after the Region cell, the header of the first file.          *)
(***************************************************************************)
C5_MismatchStillCombined ==
    \A d \in Visited :
        HeaderMismatchIn(d) =>
            /\ RegionFileWritten(d)
            /\ d \in warnings
            /\ Len(disk[d][d].content) >= 1
            /\ disk[d][d].content[1][1] = "Region"
            /\ BeginsWithRow(Tail(disk[d][d].content[1]),
                             disk[d][ReadableNumeric(d)[1]].content[1])

\* the regional files that can be read
ReadableRegional == SelectSeq(RegionalContents, LAMBDA f : ~ReadFails(f))

\* two of the Region Tables have different headers
RegionHeadersDiffer ==
    \E k1, k2 \in 1..Len(ReadableRegional) :
        Row0Differs(ReadableRegional[k1][1], ReadableRegional[k2][1])

CarriesRow(out, in, d) ==
    /\ Len(out) >= Len(in) + 1
    /\ out[1] = d
    /\ \A c \in 1..Len(in) : out[c + 1] = in[c]
    /\ \A c \in (Len(in) + 2)..Len(out) : out[c] = ""

\* the Region Table of d holds data row j of file d/n.csv
InRegionTable(d, n, j) ==
    \E k \in 1..Len(disk[d][d].content) :
        CarriesRow(disk[d][d].content[k], disk[d][n].content[j], d)

\* the CSV files of subfolder d other than the combined file itself
InputNames(d) == glob_csv(disk[d]) \ {d}

(***************************************************************************)
(* C9, as claimed: the Region Table of a subfolder contains the data rows  *)
(* of all the CSV files that belong to the subfolder.                      *)
(***************************************************************************)
C9_AllFilesInRegionTable ==
    \A d \in Visited :
        RegionFileWritten(d) =>
            \A n \in InputNames(d) : \A j \in 2..Len(disk[d][n].content) :
                InRegionTable(d, n, j)

(***************************************************************************)
(* C9, amended: the Region Table of a subfolder contains the data rows of  *)
(* all the CSV files of the subfolder whose name begins with a digit, and  *)
(* no row of a CSV file of the subfolder whose name begins otherwise.      *)
(***************************************************************************)
C9_NumericFilesInRegionTable ==
    \A d \in Visited :
        RegionFileWritten(d) =>
            \A n \in InputNames(d) : \A j \in 2..Len(disk[d][n].content) :
                InRegionTable(d, n, j) <=> BeginsWithDigit(n)

C9_Witness ==
    /\ "North" \in Visited
    /\ RegionFileWritten("North")
    /\ disk["North"]["Table_1"].exists
    /\ ~InRegionTable("North", "Table_1", 2)
    /\ Len(disk["North"]["10"].content) = 2
    /\ Len(disk["North"]["3"].content) = 2
    /\ InRegionTable("North", "10", 2)
    /\ InRegionTable("North", "3", 2)

\* the rows of the regional file at position k that are not its row 0
RECURSIVE RegionalDataRowsUpTo(_)
RegionalDataRowsUpTo(k) ==
    IF k = 0 THEN 0
    ELSE RegionalDataRowsUpTo(k - 1) + Max(Len(RegionalContents[k]) - 1, 0)

(***************************************************************************)
(* C10: England.csv is the same concatenation of the per-region files: its *)
(* row 0 is the first region file's header, it has exactly one header row, *)
(* and its other rows are the data rows of every region file produced, in  *)
(* region order then row order, each with the name of its subfolder in the *)
(* Region cell.                                                            *)
(***************************************************************************)
C10_NationalFile ==
    (ppc = "done" /\ england.exists) =>
        /\ Len(england.content) = 1 + RegionalDataRowsUpTo(Len(regional_files))
        /\ england.content[1][1] = "Region"
        /\ BeginsWithRow(england.content[1], RegionalContents[1][1])
        /\ \A k \in 1..Len(regional_files) :
               \A j \in 2..Len(RegionalContents[k]) :
                   LET row == england.content[RegionalDataRowsUpTo(k - 1) + j]
                   IN  /\ row[1] = regional_files[k]
                       /\ BeginsWithRow(row, RegionalContents[k][j])


(***************************************************************************)
(* C15: standardize_financial_year maps every string of the form four      *)
(* digits, hyphen, four digits to its first four digits, a hyphen and its  *)
(* last two digits, and returns every other string unchanged.              *)
(***************************************************************************)
OfFullYearForm(s) == MatchesFullYear(s)

C15_YearRule ==
    ypc = "done" =>
        IF OfFullYearForm(year_string)
        THEN year_out = SubSeq(year_string, 1, 4) \o "-"
                            \o SubSeq(year_string, 8, 9)
        ELSE year_out = year_string

(***************************************************************************)
(* Claims about the Normalizer                                             *)
(***************************************************************************)
\* the text of the file as process_csv_file read it
InputCell(r, c) == ReadCell(csv_file.content[r][c])

\* the longest beginning of text that holds no underscore
UpToUnderscore(text) ==
    LET n == CHOOSE k \in 0..Len(text) :
                 /\ \A i \in 1..k : CharAt(text, i) # "_"
                 /\ k = Len(text) \/ CharAt(text, k + 1) = "_"
    IN  SubSeq(text, 1, n)

OrganisationName == "Organisation"
StartName == "All_ABI__Female_Count"
EndName == "Other_disorders_Total_Rate"

HasHeader(df, name) == \E c \in 1..Len(df[1]) : df[1][c] = name
HeaderColumn(df, name) == CHOOSE c \in 1..Len(df[1]) : df[1][c] = name

BothBoundaries(df) ==
    /\ HasHeader(df, OrganisationName)
    /\ HasHeader(df, StartName)
    /\ HasHeader(df, EndName)

\* in row r of the frame after, the Organisation cell is "unknown" and the
\* cells from the start column to the end column are 0
RowZeroed(before, after, r) ==
    /\ after[r][HeaderColumn(before, OrganisationName)] = "unknown"
    /\ \A c \in HeaderColumn(before, StartName)..HeaderColumn(before, EndName) :
           after[r][c] = "0"

TotalCountRows(df) ==
    {r \in 2..Len(df) : df[r][HeaderColumn(df, OrganisationName)] = "Total_Count"}

(***************************************************************************)
(* C12: with the Organisation header and both boundary headers in row 0,   *)
(* process_total_count_rows leaves every data row whose Organisation cell  *)
(* is "Total_Count" with Organisation "unknown" and 0 across the span.     *)
(***************************************************************************)
C12_TotalCountZeroed ==
    [][(CsvStep9 /\ BothBoundaries(csv_df)) =>
          \A r \in TotalCountRows(csv_df) : RowZeroed(csv_df, csv_df', r)]_vars

\* C12, for a start header that stands before the end header
C12_TotalCountZeroedInOrder ==
    [][(CsvStep9 /\ BothBoundaries(csv_df)
           /\ HeaderColumn(csv_df, StartName) < HeaderColumn(csv_df, EndName)) =>
          \A r \in TotalCountRows(csv_df) : RowZeroed(csv_df, csv_df', r)]_vars

\* a returned table with a zeroed row under the two boundary headers
C12_Witness ==
    /\ npc = "returned"
    /\ BothBoundaries(csv_df)
    /\ HeaderColumn(csv_df, StartName) < HeaderColumn(csv_df, EndName)
    /\ Len(csv_df) >= 2
    /\ csv_file.content[3][1] = "Total_Count"
    /\ csv_df[2][3] = "unknown"
    /\ csv_df[2][HeaderColumn(csv_df, StartName)] = "0"
    /\ csv_df[2][HeaderColumn(csv_df, EndName)] = "0"

\* row r is the same in both frames
SameRow(before, after, r) == after[r] = before[r]

\* the columns from the start header to the end header (none when a header
\* is missing or the start header does not come first)
Span(df) ==
    IF HasHeader(df, StartName) /\ HasHeader(df, EndName)
    THEN HeaderColumn(df, StartName)..HeaderColumn(df, EndName)
    ELSE {}

\* the Organisation column, if any
OrgColumns(df) == {c \in 1..Len(df[1]) : df[1][c] = OrganisationName}

(***************************************************************************)
(* C13: process_total_count_rows changes nothing else: the header row,     *)
(* every data row whose Organisation cell is not "Total_Count", and in a   *)
(* "Total_Count" row every cell outside the span other than the            *)
(* Organisation cell, are left unchanged.                                  *)
(***************************************************************************)
C13_NothingElseChanged ==
    [][CsvStep9 =>
          /\ Len(csv_df') = Len(csv_df)
          /\ SameRow(csv_df, csv_df', 1)
          /\ \A r \in 2..Len(csv_df) :
                IF r \in TotalCountRows(csv_df)
                THEN \A c \in 1..Len(csv_df[r]) :
                        c \notin Span(csv_df) \cup OrgColumns(csv_df)
                            => csv_df'[r][c] = csv_df[r][c]
                ELSE SameRow(csv_df, csv_df', r)]_vars

\* header cells and Organisation cells compared after trimming
HasTrimmedHeader(df, name) ==
    \E c \in 1..Len(df[1]) : Strip(strcell(df[1][c])) = name
TrimmedHeaderColumn(df, name) ==
    CHOOSE c \in 1..Len(df[1]) : Strip(strcell(df[1][c])) = name

TrimmedSpan(df) ==
    IF HasTrimmedHeader(df, StartName) /\ HasTrimmedHeader(df, EndName)
    THEN TrimmedHeaderColumn(df, StartName)..TrimmedHeaderColumn(df, EndName)
    ELSE {}

TrimmedOrgColumns(df) ==
    {c \in 1..Len(df[1]) : Strip(strcell(df[1][c])) = OrganisationName}

TrimmedTotalCountRows(df) ==
    {r \in 2..Len(df) :
        \E c \in TrimmedOrgColumns(df) : Strip(strcell(df[r][c])) = "Total_Count"}

\* C13, with the header cells and the Organisation cell trimmed of
\* surrounding whitespace before they are compared
C13_NothingElseChangedTrimmed ==
    [][CsvStep9 =>
          /\ Len(csv_df') = Len(csv_df)
          /\ SameRow(csv_df, csv_df', 1)
          /\ \A r \in 2..Len(csv_df) :
                IF r \in TrimmedTotalCountRows(csv_df)
                THEN \A c \in 1..Len(csv_df[r]) :
                        c \notin TrimmedSpan(csv_df) \cup TrimmedOrgColumns(csv_df)
                            => csv_df'[r][c] = csv_df[r][c]
                ELSE SameRow(csv_df, csv_df', r)]_vars

\* a returned table where a Total_Count row was rewritten and kept its
\* cells outside the span
C13_Witness ==
    /\ npc = "returned"
    /\ Len(csv_df) >= 2
    /\ InputCell(3, 1) = "Total_Count "
    /\ csv_df[2][3] = "unknown"
    /\ csv_df[2][1] = "2014-15"
    /\ csv_df[2][2] = "NHSEngland"
    /\ \E c \in 4..Len(csv_df[1]) :
          c \notin TrimmedSpan(csv_df) /\ csv_df[2][c] = "5"
    /\ TrimmedSpan(csv_df) # {}
    /\ \A c \in TrimmedSpan(csv_df) : csv_df[2][c] = "0"

(***************************************************************************)
(* C14: if a boundary header (or the Organisation header) is absent from   *)
(* row 0, process_total_count_rows returns the table unchanged, and the    *)
(* normalization of the file still completes and is written.               *)
(***************************************************************************)
ReturnedAndWritten ==
    /\ npc = "step9" => npc' = "returned"
    /\ npc = "returned" =>
          /\ npc' = "saved"
          /\ csv_file' = Present(to_csv([ncols |-> Len(csv_df[1]),
                                         rows |-> csv_df]))

C14_AbsentHeaderSkips ==
    [][/\ (CsvStep9 /\ ~BothBoundaries(csv_df)) => csv_df' = csv_df
       /\ ReturnedAndWritten]_vars

\* C14, with the header cells trimmed of surrounding whitespace before
\* they are compared
C14_AbsentTrimmedHeaderSkips ==
    [][/\ (CsvStep9 /\ ~(/\ HasTrimmedHeader(csv_df, OrganisationName)
                         /\ HasTrimmedHeader(csv_df, StartName)
                         /\ HasTrimmedHeader(csv_df, EndName)))
            => csv_df' = csv_df
       /\ ReturnedAndWritten]_vars

\* a file written with its Total_Count row kept, no end header in row 0
C14_Witness ==
    /\ npc = "saved"
    /\ HasTrimmedHeader(csv_df, StartName)
    /\ ~HasTrimmedHeader(csv_df, EndName)
    /\ Len(csv_df) >= 2
    /\ csv_df[2][3] = "Total_Count"
    /\ csv_file.content[2][3] = "Total_Count"

\* text cut at its first underscore, a missing cell left missing
CutCell(cell) == IF cell = NaN THEN NaN ELSE UpToUnderscore(cell)

NoUnderscore(cell) == cell = NaN \/ ~Contains(cell, "_")

(***************************************************************************)
(* C16: underscore truncation touches only columns 0 and 1 of the reshaped *)
(* table: every cell of those columns is cut at its first underscore (no   *)
(* cell of columns 0 and 1 of the result holds an underscore) and no cell  *)
(* of a column of index 2 or more is truncated.                            *)
(***************************************************************************)
C16_TruncationFirstTwoColumns ==
    /\ [](npc = "returned" =>
            \A r \in 1..Len(csv_df) :
                NoUnderscore(csv_df[r][1]) /\ NoUnderscore(csv_df[r][2]))
    /\ [][CsvStep6 =>
            /\ Len(csv_df') = Len(csv_df)
            /\ \A r \in 1..Len(csv_df) :
                  /\ Len(csv_df'[r]) = Len(csv_df[r])
                  /\ \A c \in 1..Len(csv_df[r]) :
                        csv_df'[r][c] = IF c <= 2 THEN CutCell(csv_df[r][c])
                                        ELSE csv_df[r][c]]_vars

\* a returned table whose second column was cut and whose third column
\* still holds an underscore
C16_Witness ==
    /\ npc = "returned"
    /\ Len(csv_df) >= 2
    /\ InputCell(2, 1) = "CCG_North East"
    /\ csv_df[2][2] = "CCG"
    /\ csv_df[2][3] = "St_James"
    /\ \E c \in 4..Len(csv_df[1]) : csv_df[2][c] = "A_B"

\* the text with its spaces taken out
WithoutSpaces(text) == Replace(text, " ", "")

\* the input's row-1 first cell, as a text
RegimeCell == OrEmpty(InputCell(2, 1))

(***************************************************************************)
(* C17: in the returned table the Regime column has header "Regime" and    *)
(* in every data row the input's row-1 first cell with its spaces removed. *)
(***************************************************************************)
C17_RegimeColumn ==
    npc = "returned" =>
        /\ csv_df[1][2] = "Regime"
        /\ \A r \in 2..Len(csv_df) : csv_df[r][2] = WithoutSpaces(RegimeCell)

\* C17, the value being also cut at its first underscore
C17_RegimeColumnCut ==
    npc = "returned" =>
        /\ csv_df[1][2] = "Regime"
        /\ \A r \in 2..Len(csv_df) :
              csv_df[r][2] = UpToUnderscore(WithoutSpaces(RegimeCell))

\* a returned table with a data row, for a regime label that holds a space
\* and an underscore
C17_Witness ==
    /\ npc = "returned"
    /\ Len(csv_df) >= 2
    /\ RegimeCell = "CCG_North East"
    /\ csv_df[2][2] = "CCG"

\* the input's top-left cell with its spaces replaced by underscores
YearLabel == Replace(OrEmpty(InputCell(1, 1)), " ", "_")

(***************************************************************************)
(* C18: in the returned table every data row holds the same value in       *)
(* column 0: the input's top-left cell with spaces replaced by             *)
(* underscores, cut at its first underscore and reformatted by the year    *)
(* rule.                                                                   *)
(***************************************************************************)
C18_YearColumn ==
    npc = "returned" =>
        \A r \in 2..Len(csv_df) :
            csv_df[r][1] = standardize_financial_year(UpToUnderscore(YearLabel))

\* a returned table with a data row whose year was cut and reformatted
C18_Witness ==
    /\ npc = "returned"
    /\ Len(csv_df) >= 2
    /\ InputCell(1, 1) = "2014-2015 Financial Year"
    /\ csv_df[2][1] = "2014-15"

(***************************************************************************)
(* Claims about the Extractor's split                                      *)
(***************************************************************************)
\* a row with a cell that is neither missing nor blank
NonBlank(row) == \E c \in 1..Len(row) : row[c] # NaN /\ Strip(row[c]) # ""

\* the maximal runs of consecutive non-blank rows of a sheet, as <<a, b>>
Runs(df) ==
    {<<a, b>> \in (1..Len(df)) \X (1..Len(df)) :
        /\ a <= b
        /\ \A r \in a..b : NonBlank(df[r])
        /\ a = 1 \/ ~NonBlank(df[a - 1])
        /\ b = Len(df) \/ ~NonBlank(df[b + 1])}

\* the k-th run from the top
RunAt(df, k) ==
    CHOOSE run \in Runs(df) :
        Cardinality({other \in Runs(df) : other[1] < run[1]}) = k - 1

RowsOfRun(df, run) == SubSeq(df, run[1], run[2])

(***************************************************************************)
(* C19: the number of sub-tables split_by_blank_rows returns equals the    *)
(* number of maximal runs of consecutive non-blank rows of the sheet, and  *)
(* each sub-table consists of exactly the rows of its run, in order.       *)
(***************************************************************************)
C19_OneSubTablePerRun ==
    xpc = "done" =>
        /\ Len(split_dataframes) = Cardinality(Runs(processed_df))
        /\ \A k \in 1..Len(split_dataframes) :
              split_dataframes[k].rows = RowsOfRun(processed_df, RunAt(processed_df, k))

\* the file names written and the texts they hold
Written == DOMAIN output_subfolder

(***************************************************************************)
(* C20: the CSV files the Extractor writes into the region subfolder are   *)
(* in one-to-one correspondence with the sheet's sub-tables: one file per  *)
(* sub-table, holding that sub-table's rows unmodified, and no other file. *)
(***************************************************************************)
C20_OneFilePerSubTable ==
    xpc = "done" =>
        \E file_of \in [Runs(processed_df) -> Written] :
            /\ \A stem \in Written : \E run \in Runs(processed_df) : file_of[run] = stem
            /\ \A r1, r2 \in Runs(processed_df) : file_of[r1] = file_of[r2] => r1 = r2
            /\ \A run \in Runs(processed_df) :
                  output_subfolder[file_of[run]] = CsvOf(RowsOfRun(processed_df, run))

\* the last item of split_dataframes written to the file name, 0 if none
LastWriter(stem) ==
    LET writers == {k \in 1..Len(split_dataframes) :
                       SplitFileName(split_dataframes, k) = stem}
    IN  IF writers = {} THEN 0
        ELSE CHOOSE k \in writers : \A j \in writers : j <= k

\* C20, as the files are written: the whole sheet under the sheet's name,
\* then one file per sub-table returned by split_by_blank_rows under its
\* cleaned name, a later file replacing an earlier one of the same name
C20_MainFileAndOneFilePerName ==
    xpc = "done" =>
        /\ Written = {clean_sheet_name} \cup
                        {SplitFileName(split_dataframes, k) :
                            k \in 1..Len(split_dataframes)}
        /\ \A stem \in Written :
              output_subfolder[stem] =
                  IF LastWriter(stem) = 0 THEN CsvOf(processed_df)
                  ELSE CsvOf(split_dataframes[LastWriter(stem)].rows)

\* a subfolder holding the main file and the files of two sub-tables
C20_Witness ==
    /\ xpc = "done"
    /\ Len(split_dataframes) = 2
    /\ Cardinality(Written) = 3
    /\ LastWriter(clean_sheet_name) = 0
    /\ output_subfolder[clean_sheet_name] = CsvOf(processed_df)

(***************************************************************************)
(* C21  Steps 3 and 4 of process_abi_data                                  *)
(***************************************************************************)
\* the cells of the frame
Cells(df) == {<<r, c>> : r \in 1..Len(df), c \in 1..RateWidth}

\* Step 4 leaves the cell that was "Rate" as Step 3 left it, and turns a left
\* neighbour that is a count term into that term followed by "_Count"
CountStepKeepsRate(r, c) ==
    /\ processed_df'[r][c] = processed_df[r][c]
    /\ c > 1 /\ notna(processed_df[r][c - 1])
       /\ Strip(processed_df[r][c - 1]) \in count_terms
       => processed_df'[r][c - 1] = Strip(processed_df[r][c - 1]) \o "_Count"

\* C21 as stated: after Step 3 every cell that was equal to "Rate" holds the
\* text its left neighbour has before Step 4, followed by "_Rate"; Step 4
\* then leaves that cell alone and gives the left neighbour its "_Count"
C21_RateCells ==
    [][/\ xpc = "step3" =>
            \A p \in Cells(processed_df) :
                processed_df[p[1]][p[2]] = "Rate" =>
                    /\ p[2] > 1
                    /\ notna(processed_df'[p[1]][p[2] - 1])
                    /\ processed_df'[p[1]][p[2]] =
                           processed_df'[p[1]][p[2] - 1] \o "_Rate"
       /\ xpc = "step4" =>
            \A p \in Cells(processed_df) :
                original_df[p[1]][p[2]] = "Rate" => CountStepKeepsRate(p[1], p[2])
      ]_vars

\* C21 amended: a cell that is "Rate" once trimmed and has a left neighbour
\* that is not missing holds, after Step 3, the text its left neighbour has
\* before Step 4 (untrimmed, and already rewritten where the neighbour was a
\* "Rate" cell itself) followed by "_Rate"; a "Rate" cell in the first column
\* or right of a missing cell is left as it was; Step 4 leaves all of them
\* alone and gives a left neighbour that is a count term its "_Count"
C21_RateCellsWithLeftText ==
    [][/\ xpc = "step3" =>
            \A p \in Cells(processed_df) :
                LET cell == processed_df[p[1]][p[2]]
                IN  notna(cell) /\ Strip(cell) = "Rate" =>
                        IF p[2] > 1 /\ notna(processed_df[p[1]][p[2] - 1])
                        THEN processed_df'[p[1]][p[2]] =
                                 processed_df'[p[1]][p[2] - 1] \o "_Rate"
                        ELSE processed_df'[p[1]][p[2]] = cell
       /\ xpc = "step4" =>
            \A p \in Cells(processed_df) :
                notna(original_df[p[1]][p[2]])
                /\ Strip(original_df[p[1]][p[2]]) = "Rate"
                => CountStepKeepsRate(p[1], p[2])
      ]_vars

\* a "Rate" right of "Female" and a "Rate" right of that, after both steps
C21_Witness ==
    /\ xpc = "step5"
    /\ original_df[1][1] = "Female"
    /\ original_df[1][2] = "Rate"
    /\ original_df[1][3] = "Rate"
    /\ processed_df[1] = <<"Female_Count", "Female_Rate", "Female_Rate_Rate">>

(***************************************************************************)
(* C22  a workbook with fewer than two sheets                              *)
(***************************************************************************)
FewerThanTwoSheets(i) ==
    excel_files[i].opens /\ Len(excel_files[i].sheet_names) < 2

\* the workbooks process_abi_data returned from, among the first k
Succeeded(k) == {i \in 1..k : ~AbiDataRaises(excel_files[i])}

\* C22: the turn of a workbook with fewer than two sheets leaves output_dir
\* as it was (no folder, no file), prints the error, does not count the file
\* and moves on to the next; when the batch is over every workbook that has
\* a second sheet has been processed and counted, and its subfolder holds
\* its main file
C22_FewerThanTwoSheets ==
    /\ [][epc = "loop" /\ excel_file <= Len(excel_files)
          /\ FewerThanTwoSheets(excel_file)
          => /\ output_path' = output_path
             /\ processed_count' = processed_count
             /\ failed' = failed \cup {excel_file}
             /\ excel_file' = excel_file + 1
             /\ epc' = "loop"]_vars
    /\ [](epc = "done" /\ excel_files # <<>> =>
            /\ \A i \in 1..Len(excel_files) :
                   FewerThanTwoSheets(i) => i \in failed
            /\ processed_count = Cardinality(Succeeded(Len(excel_files)))
            /\ \A i \in Succeeded(Len(excel_files)) :
                   LET name == CleanName(excel_files[i].sheet_names[2])
                   IN  /\ i \notin failed
                       /\ name \in DOMAIN output_path.folders
                       /\ name \in DOMAIN output_path.folders[name])

\* a batch of three workbooks, the second with one sheet, the others
\* processed: the batch is over
C22_Witness ==
    /\ epc = "done"
    /\ Len(excel_files) = 3
    /\ FewerThanTwoSheets(2)
    /\ failed = {2}
    /\ processed_count = 2
    /\ DOMAIN output_path.folders = {"North_East", "A_B"}

(***************************************************************************)
(* C23  a file process_csv_file raises for                                 *)
(***************************************************************************)
\* the log holds the entry <<kind, p>>
Logged(kind, p) == \E k \in 1..Len(events) : events[k] = <<kind, p>>

\* the places of the log where it holds <<kind, p>>
Places(kind, p) == {k \in 1..Len(events) : events[k] = <<kind, p>>}

\* the CSV files of the subfolders
CsvPaths == {<<d, n>> : d \in dirs, n \in NamesIn("North") \cup NamesIn("South")}

OnDisk == {p \in CsvPaths : p[2] \in DOMAIN disk[p[1]] /\ disk[p[1]][p[2]].exists}

\* the file the inner loop of process_all_csv_files is at
AtFile(d, n) ==
    /\ bpc = "files"
    /\ file_idx <= Len(csv_list)
    /\ d = subfolders[idx]
    /\ n = csv_list[file_idx]

\* C23: the turn of a file process_csv_file raises for leaves every file on
\* disk as it was, prints the error, does not count the file and goes on to
\* the next file; when the run is over every CSV file of every subfolder has
\* either been written or had its error printed, never both
C23_FailedFileNotRewritten ==
    /\ [][\A p \in OnDisk :
              AtFile(p[1], p[2]) /\ CsvFileRaises(disk[p[1]][p[2]].content)
              => /\ disk' = disk
                 /\ failed' = failed \cup {p}
                 /\ total_files_processed' = total_files_processed
                 /\ file_idx' = file_idx + 1
                 /\ bpc' = "files"]_vars
    /\ [](bpc = "done" /\ dirs # {} =>
            /\ \A p \in OnDisk : (p \in failed) # Logged("written", p)
            /\ total_files_processed =
                   Cardinality({p \in OnDisk : Logged("written", p)}))

\* North/2.csv has one row and its error was printed; the file globbed
\* after it and the file of the subfolder after North were written
C23_Witness ==
    /\ bpc = "done"
    /\ runs = 1
    /\ subfolders = <<"North", "South">>
    /\ Len(disk["North"]["2"].content) = 1
    /\ <<"North", "2">> \in failed
    /\ \E j \in Places("error", <<"North", "2">>) :
       \E k \in Places("written", <<"North", "10">>) : j < k
    /\ Logged("written", <<"South", "1">>)

(***************************************************************************)
(* C27  the size of the table process_csv_file returns                     *)
(***************************************************************************)
\* the content has `rows` rows of `columns` cells each
HasShape(content, rows, columns) ==
    /\ Len(content) = rows
    /\ \A r \in 1..rows : Len(content[r]) = columns

\* C27: in every run of the Normalizer, the turn of a file of r >= 2 rows
\* and c >= 1 columns (that can be written) leaves in its place a file of
\* r - 1 rows and c + 2 columns, whether the file is as the Extractor wrote
\* it or as an earlier run of the Normalizer left it
C27_OneRowFewerTwoColumnsMore ==
    [][\A p \in OnDisk :
           LET content == disk[p[1]][p[2]].content
           IN  /\ AtFile(p[1], p[2])
               /\ Len(content) >= 2
               /\ Len(content[1]) >= 1
               /\ p \notin read_only
               => HasShape(disk'[p[1]][p[2]].content,
                           Len(content) - 1, Len(content[1]) + 2)]_vars

\* the second run is over: North/10.csv, which began with three rows of two
\* columns, has been rewritten twice and holds one row of six columns
C27_Witness ==
    /\ bpc = "done"
    /\ runs = 2
    /\ Logged("written", <<"North", "10">>)
    /\ HasShape(disk["North"]["10"].content, 1, 6)

(***************************************************************************)
(* C30  a numeric-named file whose normalization failed                    *)
(***************************************************************************)
\* the numeric-named files the Normalizer printed an error for, still there
FailedNumeric ==
    {p \in failed : /\ p \in CsvPaths
                    /\ BeginsWithDigit(p[2])
                    /\ disk[p[1]][p[2]].exists}

\* the place of n among the numeric files of d, as the Concatenator sorts them
PlaceAmongNumeric(d, n) ==
    CHOOSE k \in 1..Len(get_numeric_csv_files(disk[d])) :
        get_numeric_csv_files(disk[d])[k] = n

\* row 1 of the Region Table is row 0 of the file with "Region" in front
IsHeaderOf(out, in) ==
    /\ Len(out) >= Len(in) + 1
    /\ out[1] = "Region"
    /\ \A c \in 1..Len(in) : out[c + 1] = in[c]
    /\ \A c \in (Len(in) + 2)..Len(out) : out[c] = ""

\* the rows the numeric file at place i of subfolder d gives to the Region
\* Table: none if it cannot be read, all if it is the first, all but row 0
\* otherwise
RowsGiven(d, i) ==
    LET content == disk[d][get_numeric_csv_files(disk[d])[i]].content
    IN  IF ReadFails(content) THEN 0
        ELSE IF i = 1 THEN Len(content) ELSE Len(content) - 1

RECURSIVE RowsGivenBefore(_, _)
RowsGivenBefore(d, k) ==
    IF k = 1 THEN 0 ELSE RowsGivenBefore(d, k - 1) + RowsGiven(d, k - 1)

\* C30: a numeric-named file whose normalization failed is not changed
\* afterwards, neither by the Normalizer nor by the Concatenator; when the
\* Concatenator has run, the file is among the numeric files it selected,
\* and where it could be read, the Region Table holds, after the rows of the
\* files before it, every row of the file after row 0 (its second header
\* row too) as a data row of the region, in front of them row 0 as the
\* table's own row 0 if the file is the first of the numeric files, and
\* nothing of row 0 otherwise
C30_FailedFileStillCombined ==
    /\ [][\A p \in FailedNumeric :
              disk'[p[1]][p[2]] = disk[p[1]][p[2]]]_vars
    /\ [](ppc = "done" =>
            \A p \in FailedNumeric :
                LET d == p[1]
                    n == p[2]
                    content == disk[d][n].content
                    table == disk[d][d].content
                    k == PlaceAmongNumeric(d, n)
                IN  /\ \E i \in 1..Len(get_numeric_csv_files(disk[d])) :
                           get_numeric_csv_files(disk[d])[i] = n
                    /\ ~ReadFails(content) =>
                           /\ RegionFileWritten(d)
                           /\ Len(table) =
                                  RowsGivenBefore(
                                      d, Len(get_numeric_csv_files(disk[d])) + 1)
                           /\ k = 1 => IsHeaderOf(table[1], content[1])
                           /\ \A j \in 2..Len(content) :
                                  CarriesRow(
                                      table[RowsGivenBefore(d, k)
                                            + (IF k = 1 THEN j ELSE j - 1)],
                                      content[j], d))

\* North/2.csv, read-only, kept its two header rows and its data row when
\* the Normalizer failed to write it; it is the second numeric file of
\* North, and the Region Table holds its second header row as a data row
C30_Witness ==
    /\ ppc = "done"
    /\ <<"North", "2">> \in FailedNumeric
    /\ Len(disk["North"]["2"].content) = 3
    /\ PlaceAmongNumeric("North", "2") = 2
    /\ RegionFileWritten("North")
    /\ \E k \in 2..Len(disk["North"]["North"].content) :
           disk["North"]["North"].content[k] =
               <<"North", "NHS England", "Female_Count">>

(***************************************************************************)
(* C24  what is done to each file, in order                                *)
(***************************************************************************)
\* the input files of the stage that is running: the workbooks by their
\* place in excel_files, the CSV files by subfolder and stem
InputFiles ==
    IF epc # "idle" THEN 1..Len(excel_files) ELSE CsvPaths

\* what was done to file p, in order
KindsOf(p) ==
    LET of_p == SelectSeq(events, LAMBDA e : e[2] = p)
    IN  [k \in 1..Len(of_p) |-> of_p[k][1]]

\* read once, transformed, written; or read and failed; or read, transformed
\* and failed to be written
OnceThrough ==
    {<<>>, <<"read", "transformed", "written">>, <<"read", "error">>,
     <<"read", "transformed", "error">>}

TwiceRead ==
    {<<>>, <<"read", "read", "transformed", "written">>,
     <<"read", "read", "error">>}

Discovered ==
    IF epc # "idle" THEN 1..Len(excel_files)
    ELSE IF bpc # "idle" THEN OnDisk
    ELSE {p \in OnDisk : BeginsWithDigit(p[2])}
             \cup {<<regional_files[k], regional_files[k]>> :
                      k \in 1..Len(regional_files)}

\* how the attempts at file p ended: its result written, or its error printed
Outcomes(p) == Places("written", p) \cup Places("error", p)

BatchOver == epc = "done" \/ bpc = "done" \/ ppc = "done"

Loaded == dpc = "keyed" /\ dpc' = "idle" /\ shown' # 0

\* the call of load_data finds an entry / finds none
HitStep == dpc = "keyed" /\ Lookup(cache, cache_key).hit /\ dpc' = "idle"
MissStep == dpc = "keyed" /\ ~Lookup(cache, cache_key).hit /\ dpc' = "idle"

\* the frame returned is not older than the file was when the load began
Fresh == Loaded => shown' >= stat_version

\* C26 as stated: a load whose key has an entry returns the cached copy
\* without reading the file, a load after a change reads the file, and the
\* copy a load returns was not loaded before the last change of the file
C26_CachedCopyNeverStale ==
    [][/\ HitStep => file_reads' = file_reads
                  /\ shown' = Lookup(cache, cache_key).value
       /\ MissStep /\ version > 0 => file_reads' = file_reads + 1
                                     /\ shown' = version
       /\ Fresh]_vars

\* the content the file held when the load began was written with a
\* modification time that no earlier content had
NewStamp ==
    \A j \in 1..(stat_version - 1) : stamps[j] # stamps[stat_version]

\* C26 amended: a load whose key (the modification time, 0 without a file)
\* has an entry returns the cached copy without reading the file; a load
\* whose key has none reads the file and returns what it holds; the copy a
\* load returns was not loaded before the last change of the file provided
\* that change gave the file a modification time it did not have before
C26_CachedCopyOfSameStamp ==
    [][/\ HitStep => file_reads' = file_reads
                  /\ shown' = Lookup(cache, cache_key).value
       /\ MissStep /\ version > 0 => file_reads' = file_reads + 1
                                     /\ shown' = version
       /\ NewStamp => Fresh]_vars

\* the file was loaded, rewritten at a later time and loaded again: two
\* reads, two entries, the second content shown
C26_Witness ==
    /\ dpc = "idle"
    /\ version = 2
    /\ stamps[1] # stamps[2]
    /\ file_reads = 2
    /\ shown = 2
    /\ DOMAIN cache = {stamps[1], stamps[2]}

(***************************************************************************)
(* C29  the Region Table takes the place of the whole-sheet dump           *)
(***************************************************************************)
\* the whole-sheet dump the Extractor left at d/d.csv
SheetDump(d) == Present(Table(<<"Sheet">>, 1, TagOf(d, d)))

\* the Region Table of subfolder d: its numeric-named files combined
RegionTable(d) ==
    to_csv(combine_csv_files(
               ContentsOf(disk[d], get_numeric_csv_files(disk[d])), d))

\* d/d.csv holds the Region Table and no longer the dump
DumpReplaced(d) ==
    /\ disk[d][d] # SheetDump(d)
    /\ disk[d][d] = Present(RegionTable(d))
    /\ \A r \in 2..Len(disk[d][d].content) :
           disk[d][d].content[r][1] = d

\* C29 as stated: once the loop has dealt with a subfolder, its d/d.csv
\* holds the Region Table and the Extractor's dump is gone
C29_DumpOverwritten ==
    \A d \in Visited : DumpReplaced(d)

\* C29 amended: once the loop has dealt with a subfolder that has a
\* numeric-named file that can be read, its d/d.csv holds the Region Table
\* and the Extractor's dump is gone; a subfolder without such a file keeps
\* the dump at d/d.csv
C29_DumpOverwrittenWhenCombined ==
    \A d \in Visited :
        IF ReadableNumeric(d) # <<>> THEN DumpReplaced(d)
        ELSE disk[d][d] = SheetDump(d)

\* the run is over: North's dump has given way to its Region Table, South
\* had no numeric-named file and keeps its dump
C29_Witness ==
    /\ ppc = "done"
    /\ dirs = Regions
    /\ DumpReplaced("North")
    /\ Len(ReadableNumeric("North")) >= 2
    /\ get_numeric_csv_files(disk["South"]) = <<>>
    /\ disk["South"]["South"] = SheetDump("South")

(***************************************************************************)
(* C28  the Concatenator run twice                                         *)
(***************************************************************************)
\* the region file of d is not among the files selected in d
RegionFileNotSelected(d) ==
    \A k \in 1..Len(get_numeric_csv_files(disk[d])) :
        get_numeric_csv_files(disk[d])[k] # d

\* a step leaves every numeric-named file as it was
InputsKept ==
    \A d \in Regions : \A n \in NumericNames(d) : disk'[d][n] = disk[d][n]

\* C28 as stated: the region file is never selected, no numeric-named file
\* is ever modified, and every step of a later run leaves the region files
\* and England.csv as the run before left them
C28_SecondRunSameFiles ==
    /\ [](\A d \in dirs : RegionFileNotSelected(d))
    /\ [][InputsKept]_vars
    /\ [][runs > 1 => disk' = disk /\ england' = england]_vars

\* C28 amended: the region file is never selected, no numeric-named file is
\* ever modified, every step of a later run leaves the region files as the
\* run before left them, and it leaves England.csv as the run before left it
\* when iterdir() lists the subfolders in the order of the run before
C28_SecondRunSameFilesInSameOrder ==
    /\ [](\A d \in dirs : RegionFileNotSelected(d))
    /\ [][InputsKept]_vars
    /\ [][runs > 1 =>
            /\ disk' = disk
            /\ subfolders = last_listing => england' = england]_vars

\* the second run is over: both regions were combined again, in the order of
\* the first run, and England.csv was written again
C28_Witness ==
    /\ runs = 2
    /\ ppc = "done"
    /\ Len(subfolders) = 2
    /\ subfolders = last_listing
    /\ Len(regional_files) = 2
    /\ england.exists
    /\ Logged("written", <<"North", "North">>)

=============================================================================
